---- MODULE Spec2Model ----
(***************************************************************************)
(* Model of the analytics engine of the hr-analytics dashboard:            *)
(*   - estimatePopulation.ts  (computeTitleCount, computeCaptureRecapture, *)
(*     estimatePopulation)                                                 *)
(*   - processCSV.ts          (processCSVToRawData: interaction pairs)     *)
(*   - processPhase2.ts       (category distribution, subcategory formats, *)
(*     batch health, themes, bias score)                                   *)
(*   - processComparison.ts   (scores, category overlap, taxonomy diff,    *)
(*     radar rows)                                                         *)
(*   - SeniorityChart.tsx     (parseCSV of the DataLoader)                 *)
(*                                                                         *)
(* Numbers.  JavaScript numbers that the modelled code can turn into NaN   *)
(* are records [nan, v]; every comparison with a NaN is false, as in       *)
(* IEEE-754.  Fractions are kept exact as numerator/denominator pairs and  *)
(* Math.round is floor(x + 1/2); percentages with one decimal (toFixed(1)) *)
(* are kept in tenths.  Strings are sequences of one-character strings, so *)
(* that trim() and the template-string pair key are real computations.     *)
(***************************************************************************)
EXTENDS Integers, Sequences, FiniteSets, TLC

VARIABLES
    pc,                \* position of the modelled call
    raw,               \* RawData handed to estimatePopulation
    titleCount,        \* TitleCountEstimate
    captureRecapture,  \* CaptureRecaptureEstimate
    recommended,       \* PopulationEstimate.recommended
    rows,              \* CsvRow[] handed to processCSVToRawData
    interactions,      \* RawData.interactions built by processCSVToRawData
    phase2,            \* Phase2Data and optional Taxonomy handed to processPhase2
    analysis,          \* Phase2Analysis
    runs,              \* PipelineRun[] handed to processComparison
    comparison,        \* ComparisonData
    csvText,           \* text handed to parseCSV
    records,           \* the records parseCSV returns
    pctArgs,           \* the sorted list and p handed to percentile
    pctValue,          \* the value percentile returns
    titles,            \* the titles handed to buildSeniorityDist
    seniorityDist,     \* the distribution buildSeniorityDist returns
    heatmap,           \* the labels and matrix buildHeatmap returns
    batchScan,         \* the batch loop of processPhase2: index, bound, batches visited
    file,              \* the File handed to handleFile and the outcome of reading it
    loader             \* DataLoader: status, error, FileReader, calls made

vars == <<pc, raw, titleCount, captureRecapture, recommended,
          rows, interactions, phase2, analysis, runs, comparison, csvText, records,
          pctArgs, pctValue, titles, seniorityDist, heatmap, batchScan, file, loader>>

\* the state of the calls modelled further down
laterVars == <<pctArgs, pctValue, titles, seniorityDist, heatmap, batchScan, file, loader>>

(***************************************************************************)
(* Bounds of the model.                                                    *)
(***************************************************************************)
MaxN == 6          \* largest unique-title count drawn for n1, n2
MaxTop == 2        \* longest top-15 list drawn for the estimator
MaxRows == 3       \* longest CsvRow[] drawn for processCSVToRawData
MaxClf == 6        \* longest classification list drawn, grouped by category value
MaxClfFree == 3    \* longest classification list drawn in every order
MaxSubClf == 2     \* longest classification list drawn with varying subcategories
MaxBatchClf == 2   \* longest classification list drawn with varying batch indices
MaxBatch == 2      \* largest batch index a classification carries
MaxMessages == 4   \* largest declared total_messages
MaxBatchSize == 2  \* largest declared batch_size
MaxCmpClf == 2     \* longest classification list of the first run of a comparison
MaxText == 5       \* longest text drawn after the header line for parseCSV

(***************************************************************************)
(* JavaScript numbers.                                                     *)
(***************************************************************************)
Fin(x) == [nan |-> FALSE, v |-> x]
NaN == [nan |-> TRUE, v |-> 0]

Max2(a, b) == IF a >= b THEN a ELSE b
Min2(a, b) == IF a <= b THEN a ELSE b

\* a >= b on JavaScript numbers: false as soon as one side is NaN
NumGeq(a, b) == ~a.nan /\ ~b.nan /\ a.v >= b.v

\* Math.round(num / den) for den > 0: floor(num/den + 1/2)
Round(num, den) == (2 * num + den) \div (2 * den)

\* Math.max over JavaScript numbers: NaN as soon as one argument is NaN
RECURSIVE MathMaxFrom(_, _, _)
MathMaxFrom(args, i, acc) ==
    IF i > Len(args) THEN Fin(acc)
    ELSE IF args[i].nan THEN NaN
    ELSE MathMaxFrom(args, i + 1, Max2(acc, args[i].v))

MathMax(args) == IF args[1].nan THEN NaN ELSE MathMaxFrom(args, 2, args[1].v)

\* Math.round(Math.sqrt(num / den)) for num >= 0, den > 0:
\* the largest k >= 0 with k - 1/2 <= sqrt(num/den)
RECURSIVE RoundSqrtFrom(_, _, _)
RoundSqrtFrom(num, den, k) ==
    IF (2 * k + 1) * (2 * k + 1) * den <= 4 * num
    THEN RoundSqrtFrom(num, den, k + 1)
    ELSE k

RoundSqrt(num, den) == RoundSqrtFrom(num, den, 0)

(***************************************************************************)
(* estimatePopulation.ts                                                   *)
(***************************************************************************)
\* new Set(top_15_titles.map(([t]) => t))
TitleSet(top) == {top[i][1] : i \in DOMAIN top}

\* Math.round(topOverlapRate * Math.min(n1, n2)), topOverlapRate = topOverlap / minSize;
\* with an empty top list the rate is 0/0, NaN
EstimatedOverlap(topOverlap, minSize, minN) ==
    IF minSize = 0 THEN NaN
    ELSE Fin(Round(topOverlap * minN, minSize))

\* the self-recognition signal ignored
OverlapFromSelfIgnored(selfCount, minN, estimatedOverlap) == estimatedOverlap

\* self_recognition_count > 0 ? Math.round(Math.min(n1, n2) * 0.3) : estimatedOverlap
OverlapFromSelf(selfCount, minN, estimatedOverlap) ==
    IF selfCount > 0 THEN Fin(Round(minN * 3, 10)) ELSE estimatedOverlap

\* Math.max(estimatedOverlap, overlapFromSelf, 1)
Overlap(estimatedOverlap, overlapFromSelf) ==
    MathMax(<<estimatedOverlap, overlapFromSelf, Fin(1)>>)

computeTitleCount(r) ==
    LET n1 == r.recipient_title.unique_count
        n2 == r.nominator_title.unique_count
        recipSet == TitleSet(r.recipient_title.top_15_titles)
        nomSet == TitleSet(r.nominator_title.top_15_titles)
        topOverlap == Cardinality({t \in recipSet : t \in nomSet})
        minSize == Min2(Cardinality(recipSet), Cardinality(nomSet))
        minN == Min2(n1, n2)
        estimatedOverlap == EstimatedOverlap(topOverlap, minSize, minN)
        overlapFromSelf ==
            OverlapFromSelf(r.interactions.self_recognition_count, minN, estimatedOverlap)
        overlap == Overlap(estimatedOverlap, overlapFromSelf)
    IN  [uniqueRecipients |-> n1,
         uniqueNominators |-> n2,
         totalUnique |-> IF overlap.nan THEN NaN ELSE Fin(n1 + n2 - overlap.v),
         overlap |-> overlap]

\* the multipliers k of the sensitivity table, in quarters: 1.0, 1.25, 1.5, 2.0, 2.5
SensitivityK4 == <<4, 5, 6, 8, 10>>

\* Math.round(N - 1.96 * se), searched downwards from k, never below floor:
\* k is the result iff 1.96 * se <= N + 1/2 - k, with N = cn/d, se^2 = vn/(d^2 * e)
RECURSIVE RoundLowFrom(_, _, _, _, _, _)
RoundLowFrom(cn, d, vn, e, k, floor) ==
    LET t == 2 * cn + d - 2 * k * d
    IN  IF k <= floor THEN floor
        ELSE IF t >= 0 /\ 9604 * vn <= 625 * e * t * t THEN k
        ELSE RoundLowFrom(cn, d, vn, e, k - 1, floor)

\* Math.round(N + 1.96 * se), searched upwards from k:
\* k + 1 is still reached iff k + 1/2 - N <= 1.96 * se
RECURSIVE RoundHighFrom(_, _, _, _, _)
RoundHighFrom(cn, d, vn, e, k) ==
    LET u == 2 * k * d + d - 2 * cn
    IN  IF u <= 0 \/ 625 * e * u * u <= 9604 * vn
        THEN RoundHighFrom(cn, d, vn, e, k + 1)
        ELSE k

\* the Lincoln-Petersen product without the bias correction of the two samples
ChapmanNumUncorrected(n1, n2, m) == n1 * n2 - (m + 1)

\* the estimate with the final "- 1" dropped
ChapmanNumNoMinusOne(n1, n2, m) == (n1 + 1) * (n2 + 1)

\* chapmanEstimate = ((n1 + 1) * (n2 + 1)) / (m + 1) - 1 = ChapmanNum / (m + 1)
ChapmanNum(n1, n2, m) == (n1 + 1) * (n2 + 1) - (m + 1)

\* variance = VarianceNum / ((m + 1) ** 2 * (m + 2))
VarianceNum(n1, n2, m) == (n1 + 1) * (n2 + 1) * (n1 - m) * (n2 - m)

\* the lower bound clamped to the sum of the two samples instead of their maximum
CiLowFloorSum(cn, d, vn, e, chap, n1, n2) == RoundLowFrom(cn, d, vn, e, chap, n1 + n2)

\* ciLow = Math.max(chapmanEstimate - 1.96 * se, Math.max(n1, n2)), rounded
CiLow(cn, d, vn, e, chap, n1, n2) == RoundLowFrom(cn, d, vn, e, chap, Max2(n1, n2))

\* estimate: Math.round(chapmanEstimate * k), k = k4 / 4
SensitivityEstimate(cn, d, k4) == Round(cn * k4, d * 4)

computeCaptureRecapture(tc) ==
    LET n1 == tc.uniqueRecipients
        n2 == tc.uniqueNominators
        m == tc.overlap
    IN  IF m.nan
        THEN [n1 |-> n1, n2 |-> n2, m |-> m,
              chapmanEstimate |-> NaN,
              standardError |-> NaN,
              ci95 |-> <<NaN, NaN>>,
              sensitivity |-> [i \in 1..5 |-> [k4 |-> SensitivityK4[i], estimate |-> NaN]]]
        ELSE
        LET d == m.v + 1
            \* chapmanEstimate = cn / d
            cn == ChapmanNum(n1, n2, m.v)
            \* variance = vn / (d * d * e)
            vn == VarianceNum(n1, n2, m.v)
            e == m.v + 2
            seNaN == vn < 0          \* Math.sqrt of a negative variance
            chap == Round(cn, d)
        IN  [n1 |-> n1, n2 |-> n2, m |-> m,
             chapmanEstimate |-> Fin(chap),
             standardError |-> IF seNaN THEN NaN ELSE Fin(RoundSqrt(vn, d * d * e)),
             ci95 |-> IF seNaN THEN <<NaN, NaN>>
                      ELSE <<Fin(CiLow(cn, d, vn, e, chap, n1, n2)),
                             Fin(RoundHighFrom(cn, d, vn, e, chap))>>,
             sensitivity |-> [i \in 1..5 |->
                 [k4 |-> SensitivityK4[i],
                  estimate |-> Fin(SensitivityEstimate(cn, d, SensitivityK4[i]))]]]

estimatePopulation(r) ==
    LET tc == computeTitleCount(r)
        cr == computeCaptureRecapture(tc)
    IN  [titleCount |-> tc,
         captureRecapture |-> cr,
         recommended |-> [low |-> cr.ci95[1], mid |-> cr.chapmanEstimate, high |-> cr.ci95[2]]]

(***************************************************************************)
(* Inputs of the estimator.                                                *)
(***************************************************************************)
\* the value of a result that has not been computed
None == "none"

\* none of the calls modelled further down is in progress
LaterIdle ==
    /\ pctArgs = None
    /\ pctValue = None
    /\ titles = None
    /\ seniorityDist = None
    /\ heatmap = None
    /\ batchScan = None
    /\ file = None
    /\ loader = None

Letters == {"a", "b", "c"}
EstTitles == {<<l>> : l \in Letters}

RECURSIVE SeqsUpTo(_, _)
SeqsUpTo(S, n) ==
    IF n = 0 THEN {<<>>}
    ELSE LET shorter == SeqsUpTo(S, n - 1)
         IN  shorter \cup {Append(q, x) : q \in {p \in shorter : Len(p) = n - 1}, x \in S}

\* top-15 lists: [title, count] entries; the estimator reads the titles only
TopLists == SeqsUpTo({<<t, 1>> : t \in EstTitles}, MaxTop)

\* the fields of RawData that the estimator reads
RawInput(n1, n2, rt, nt, s) ==
    [recipient_title |-> [unique_count |-> n1, top_15_titles |-> rt],
     nominator_title |-> [unique_count |-> n2, top_15_titles |-> nt],
     interactions |-> [self_recognition_count |-> s]]

TitleCountInput(n1, n2, m) ==
    [uniqueRecipients |-> n1, uniqueNominators |-> n2,
     totalUnique |-> Fin(n1 + n2 - m), overlap |-> Fin(m)]

\* Either a RawData for estimatePopulation, or direct arguments of
\* computeCaptureRecapture: every overlap 0 <= m <= max(1, min(n1, n2)), and the
\* documented scenario n1 = 20, n2 = 15, m = 5.
EstInit ==
    /\ \/ /\ pc = "raw"
          /\ \E n1 \in 0..MaxN, n2 \in 0..MaxN, rt \in TopLists, nt \in TopLists,
                s \in {0, 1} :
                 raw = RawInput(n1, n2, rt, nt, s)
          /\ titleCount = None
       \/ /\ pc = "titleCount"
          /\ raw = None
          /\ \/ \E n1 \in 0..MaxN, n2 \in 0..MaxN :
                    \E m \in 0..Max2(1, Min2(n1, n2)) :
                        titleCount = TitleCountInput(n1, n2, m)
             \/ titleCount = TitleCountInput(20, 15, 5)
    /\ captureRecapture = None
    /\ recommended = None
    /\ rows = None
    /\ interactions = None
    /\ phase2 = None
    /\ analysis = None
    /\ runs = None
    /\ comparison = None
    /\ csvText = None
    /\ records = None
    /\ LaterIdle

\* estimatePopulation(raw)
EstimatePopulation ==
    /\ pc = "raw"
    /\ LET est == estimatePopulation(raw)
       IN  /\ titleCount' = est.titleCount
           /\ captureRecapture' = est.captureRecapture
           /\ recommended' = est.recommended
    /\ pc' = "estimated"
    /\ UNCHANGED laterVars
    /\ UNCHANGED <<raw, rows, interactions, phase2, analysis,
                 runs, comparison, csvText, records>>

\* computeCaptureRecapture(titleCount) on its own
ComputeCaptureRecapture ==
    /\ pc = "titleCount"
    /\ captureRecapture' = computeCaptureRecapture(titleCount)
    /\ pc' = "computed"
    /\ UNCHANGED laterVars
    /\ UNCHANGED <<raw, titleCount, recommended, rows, interactions, phase2, analysis,
                 runs, comparison, csvText, records>>

EstNext == EstimatePopulation \/ ComputeCaptureRecapture

SpecEst == EstInit /\ [][EstNext]_vars

(***************************************************************************)
(* Claims about the population estimator, checked under SpecEst.           *)
(***************************************************************************)
EstDone == pc \in {"estimated", "computed"}

\* C1: for all n1, n2 >= 0 and every m with 0 <= m <= min(n1, n2),
\* computeCaptureRecapture's chapmanEstimate is >= max(n1, n2).
C1_ChapmanAtLeastSamples ==
    (/\ EstDone
     /\ ~captureRecapture.m.nan
     /\ captureRecapture.m.v >= 0
     /\ captureRecapture.m.v <= Min2(captureRecapture.n1, captureRecapture.n2))
    => NumGeq(captureRecapture.chapmanEstimate,
              Fin(Max2(captureRecapture.n1, captureRecapture.n2)))

\* the tight case: m = min(n1, n2) makes the estimate exactly max(n1, n2)
C1_Witness ==
    /\ pc = "computed"
    /\ captureRecapture.n1 = 2
    /\ captureRecapture.n2 = 5
    /\ captureRecapture.m = Fin(2)
    /\ captureRecapture.chapmanEstimate = Fin(5)

\* C2: for every RawData passed to estimatePopulation the reported chapmanEstimate
\* is >= max(n1, n2), m being the overlap computeTitleCount derives from the input.
C2_EstimateAtLeastSamples ==
    pc = "estimated"
    => NumGeq(captureRecapture.chapmanEstimate,
              Fin(Max2(captureRecapture.n1, captureRecapture.n2)))

\* C3: for every input computeCaptureRecapture receives from computeTitleCount,
\* the reported lower 95% bound ci95[0] is never below max(n1, n2).
C3_LowerBoundClamped ==
    pc = "estimated"
    => NumGeq(captureRecapture.ci95[1],
              Fin(Max2(captureRecapture.n1, captureRecapture.n2)))

\* C4: the sensitivity table lists k = 1.0, 1.25, 1.5, 2.0, 2.5 in that order and
\* its estimates are non-decreasing as k increases.
C4_SensitivityMonotone ==
    EstDone
    => /\ [i \in 1..5 |-> captureRecapture.sensitivity[i].k4] = <<4, 5, 6, 8, 10>>
       /\ \A i \in 1..4 :
              NumGeq(captureRecapture.sensitivity[i + 1].estimate,
                     captureRecapture.sensitivity[i].estimate)

\* C5: chapmanEstimate is ((n1+1)(n2+1)/(m+1)) - 1 rounded to the nearest integer
\* (halves upwards) for every n1, n2, m; n1 = 20, n2 = 15, m = 5 gives 55.
C5_ChapmanFormula ==
    (EstDone /\ ~captureRecapture.m.nan)
    => LET n1 == captureRecapture.n1
           n2 == captureRecapture.n2
           d == captureRecapture.m.v + 1
           c == captureRecapture.chapmanEstimate
           \* twice the exact estimate, times d
           exact2 == 2 * ((n1 + 1) * (n2 + 1) - d)
       IN  /\ ~c.nan
           /\ (2 * c.v - 1) * d <= exact2
           /\ exact2 < (2 * c.v + 1) * d
           /\ (n1 = 20 /\ n2 = 15 /\ d = 6) => c.v = 55

C5_Witness ==
    /\ pc = "computed"
    /\ captureRecapture.n1 = 20
    /\ captureRecapture.n2 = 15
    /\ captureRecapture.m = Fin(5)
    /\ captureRecapture.chapmanEstimate = Fin(55)

\* C6: for every RawData, including one with an empty top-15 list or a unique
\* title count of 0, titleCount.overlap is a finite integer >= 1.
C6_OverlapFloor ==
    pc = "estimated" => (~titleCount.overlap.nan /\ titleCount.overlap.v >= 1)

\* what C7 reads from the input
C7_MinN == Min2(raw.recipient_title.unique_count, raw.nominator_title.unique_count)
C7_RecipSet == TitleSet(raw.recipient_title.top_15_titles)
C7_NomSet == TitleSet(raw.nominator_title.top_15_titles)
C7_Shared == Cardinality(C7_RecipSet \cap C7_NomSet)
C7_MinSize == Min2(Cardinality(C7_RecipSet), Cardinality(C7_NomSet))
\* k = round(num / den), halves upwards
C7_IsRound(k, num, den) == (2 * k - 1) * den <= 2 * num /\ 2 * num < (2 * k + 1) * den

WhiteSpace == {" ", "\t", "\n", "\r"}

RECURSIVE Trim(_)
Trim(str) ==
    IF str = <<>> THEN <<>>
    ELSE IF Head(str) \in WhiteSpace THEN Trim(Tail(str))
    ELSE IF str[Len(str)] \in WhiteSpace THEN Trim(SubSeq(str, 1, Len(str) - 1))
    ELSE str

\* pairKey = (nom, recip) => `${nom.trim()}|||${recip.trim()}`
pairKey(nom, recip) == Trim(nom) \o <<"|", "|", "|">> \o Trim(recip)

\* index of the entry of dictionary dict under key, 0 when there is none
KeyIndex(dict, key) ==
    IF \E i \in DOMAIN dict : dict[i].key = key
    THEN CHOOSE i \in DOMAIN dict : dict[i].key = key
    ELSE 0

\* countValues: occurrences of every non-blank trimmed value
RECURSIVE countValuesFrom(_, _, _)
countValuesFrom(values, i, counts) ==
    IF i > Len(values) THEN counts
    ELSE LET trimmed == Trim(values[i])
             at == KeyIndex(counts, trimmed)
         IN  IF trimmed = <<>> THEN countValuesFrom(values, i + 1, counts)
             ELSE IF at = 0
             THEN countValuesFrom(values, i + 1, Append(counts, [key |-> trimmed, count |-> 1]))
             ELSE countValuesFrom(values, i + 1,
                      [counts EXCEPT ![at].count = counts[at].count + 1])

countValues(values) == countValuesFrom(values, 1, <<>>)

\* the loop over rows that fills pairCounts
RECURSIVE pairCountsFrom(_, _, _)
pairCountsFrom(rs, i, pairCounts) ==
    IF i > Len(rs) THEN pairCounts
    ELSE LET nom == Trim(rs[i].nominator_title)
             recip == Trim(rs[i].recipient_title)
             key == pairKey(nom, recip)
             at == KeyIndex(pairCounts, key)
         IN  IF nom = <<>> \/ recip = <<>> THEN pairCountsFrom(rs, i + 1, pairCounts)
             ELSE IF at = 0
             THEN pairCountsFrom(rs, i + 1,
                      Append(pairCounts,
                             [key |-> key, nominator |-> nom, recipient |-> recip, count |-> 1]))
             ELSE pairCountsFrom(rs, i + 1,
                      [pairCounts EXCEPT ![at].count = pairCounts[at].count + 1])

RECURSIVE SumCounts(_, _)
SumCounts(pairs, i) ==
    IF i > Len(pairs) THEN 0 ELSE pairs[i].count + SumCounts(pairs, i + 1)

\* allPairs.filter(p => p.nominator === p.recipient).reduce((s, p) => s + p.count, 0)
selfCount(allPairs) ==
    SumCounts(SelectSeq(allPairs, LAMBDA p : p.nominator = p.recipient), 1)

\* the bidirectional loop without the final halving
reversedPairCount(allPairs) ==
    LET pairSet == {allPairs[i].key : i \in DOMAIN allPairs}
    IN  Cardinality({i \in DOMAIN allPairs :
            /\ pairKey(allPairs[i].recipient, allPairs[i].nominator) \in pairSet
            /\ allPairs[i].nominator # allPairs[i].recipient})

\* the "each pair counted twice" correction forgotten
biCountUnhalved(allPairs) == reversedPairCount(allPairs)

\* biCount: pairs whose reverse key exists, each pair counted twice, then halved
biCount(allPairs) == reversedPairCount(allPairs) \div 2

\* Array.prototype.sort((a, b) => b.count - a.count): stable, by count descending
RECURSIVE InsertByCount(_, _)
InsertByCount(sorted, p) ==
    IF sorted = <<>> THEN <<p>>
    ELSE IF Head(sorted).count >= p.count
    THEN <<Head(sorted)>> \o InsertByCount(Tail(sorted), p)
    ELSE <<p>> \o sorted

RECURSIVE SortByCountDesc(_, _, _)
SortByCountDesc(pairs, i, sorted) ==
    IF i > Len(pairs) THEN sorted
    ELSE SortByCountDesc(pairs, i + 1, InsertByCount(sorted, pairs[i]))

TopPairsN == 10

\* allPairs.sort(...).slice(0, 10), without the dictionary key
topPairs(allPairs) ==
    LET sorted == SortByCountDesc(allPairs, 1, <<>>)
        top == SubSeq(sorted, 1, Min2(TopPairsN, Len(sorted)))
    IN  [i \in DOMAIN top |->
            [nominator |-> top[i].nominator, recipient |-> top[i].recipient,
             count |-> top[i].count]]

\* every row counted as an interaction, blank titles or not
totalInteractionsAllRows(rs) == Len(rs)

\* rows.filter((r) => r.nominator_title?.trim() && r.recipient_title?.trim()).length
totalInteractions(rs) ==
    Len(SelectSeq(rs, LAMBDA r :
        Trim(r.nominator_title) # <<>> /\ Trim(r.recipient_title) # <<>>))

\* RawData.interactions as processCSVToRawData assembles it
processCSVToRawData(rs) ==
    LET recipCounts == countValues([i \in DOMAIN rs |-> rs[i].recipient_title])
        nomCounts == countValues([i \in DOMAIN rs |-> rs[i].nominator_title])
        allPairs == pairCountsFrom(rs, 1, <<>>)
    IN  [total_interactions |-> totalInteractions(rs),
         unique_pairs |-> Len(allPairs),
         unique_recipients |-> Len(recipCounts),
         unique_nominators |-> Len(nomCounts),
         self_recognition_count |-> selfCount(allPairs),
         bidirectional_pairs |-> biCount(allPairs),
         top_10_pairs |-> topPairs(allPairs)]

(***************************************************************************)
(* Inputs of processCSVToRawData.                                          *)
(***************************************************************************)
EngI == <<"E", "n", "g", " ", "I">>
EngII == <<"E", "n", "g", " ", "I", "I">>

\* job titles: two plain ones, a blank one, one with surrounding blanks, and one
\* that contains the separator of the pair key
CsvTitles ==
    {EngI, EngII, <<" ">>, <<" ">> \o EngII \o <<" ">>, EngI \o <<"|", "|", "|">> \o EngI}

CsvRows ==
    {[message |-> <<"h", "i">>, award_title |-> <<"S", "t", "a", "r">>,
      recipient_title |-> rt, nominator_title |-> nt] : rt \in CsvTitles, nt \in CsvTitles}

CsvInit ==
    /\ pc = "rows"
    /\ \E n \in 0..MaxRows : rows \in [1..n -> CsvRows]
    /\ interactions = None
    /\ raw = None
    /\ titleCount = None
    /\ captureRecapture = None
    /\ recommended = None
    /\ phase2 = None
    /\ analysis = None
    /\ runs = None
    /\ comparison = None
    /\ csvText = None
    /\ records = None
    /\ LaterIdle

\* processCSVToRawData(rows)
ProcessCSVToRawData ==
    /\ pc = "rows"
    /\ interactions' = processCSVToRawData(rows)
    /\ pc' = "rawData"
    /\ UNCHANGED laterVars
    /\ UNCHANGED <<raw, titleCount, captureRecapture, recommended, rows, phase2, analysis,
                 runs, comparison, csvText, records>>

CsvNext == ProcessCSVToRawData

SpecCsv == CsvInit /\ [][CsvNext]_vars

(***************************************************************************)
(* Claims about processCSVToRawData, checked under SpecCsv.                *)
(***************************************************************************)
\* C8: for every row sequence, bidirectional_pairs <= floor(unique_pairs / 2).
C8_ReciprocalAtMostHalf ==
    pc = "rawData"
    => interactions.bidirectional_pairs <= interactions.unique_pairs \div 2

\* three distinct pairs, two of them each other's reverse
C8_Witness ==
    /\ pc = "rawData"
    /\ interactions.unique_pairs = 3
    /\ interactions.bidirectional_pairs = 1

\* the (nominator, recipient) title pairs of the rows whose two titles are non-blank
C9_Pairs ==
    {<<Trim(rows[i].nominator_title), Trim(rows[i].recipient_title)>> :
        i \in {j \in DOMAIN rows :
                  Trim(rows[j].nominator_title) # <<>> /\ Trim(rows[j].recipient_title) # <<>>}}

\* the unordered pairs {A, B}, A # B, nominated in both directions
C9_Reciprocal ==
    {{p[1], p[2]} : p \in {q \in C9_Pairs : q[1] # q[2] /\ <<q[2], q[1]>> \in C9_Pairs}}

C9_ScenarioRows ==
    <<[message |-> <<"h", "i">>, award_title |-> <<"S", "t", "a", "r">>,
       recipient_title |-> EngI, nominator_title |-> EngII],
      [message |-> <<"h", "i">>, award_title |-> <<"S", "t", "a", "r">>,
       recipient_title |-> EngII, nominator_title |-> EngI]>>

\* C9: bidirectional_pairs is the number of unordered title pairs {A, B}, A # B, for
\* which both (A nominates B) and (B nominates A) occur among the rows with two
\* non-blank titles; the two rows (Eng II -> Eng I), (Eng I -> Eng II) give
\* unique_pairs = 2, bidirectional_pairs = 1, self_recognition_count = 0.
C9_ReciprocalOncePerUnorderedPair ==
    pc = "rawData"
    => /\ interactions.bidirectional_pairs = Cardinality(C9_Reciprocal)
       /\ rows = C9_ScenarioRows
          => /\ interactions.unique_pairs = 2
             /\ interactions.bidirectional_pairs = 1
             /\ interactions.self_recognition_count = 0

\* the documented scenario by itself
C9_Scenario ==
    (pc = "rawData" /\ rows = C9_ScenarioRows)
    => /\ interactions.unique_pairs = 2
       /\ interactions.bidirectional_pairs = 1
       /\ interactions.self_recognition_count = 0

(***************************************************************************)
(* processPhase2.ts: validity of categories and the category distribution. *)
(***************************************************************************)
\* the JavaScript value null: a one-element sequence that is no string of characters
JsNull == <<"null">>

Str2(a, b) == <<a, b>>
EmptyLabel == <<"(", "e", "m", "p", "t", "y", ")">>

\* the ids a Set holds, in insertion order
RECURSIVE SetAdd(_, _, _)
SetAdd(ids, seen, i) ==
    IF i > Len(ids) THEN seen
    ELSE IF \E j \in DOMAIN seen : seen[j] = ids[i] THEN SetAdd(ids, seen, i + 1)
    ELSE SetAdd(ids, Append(seen, ids[i]), i + 1)

RECURSIVE Flatten(_, _)
Flatten(seqs, i) == IF i > Len(seqs) THEN <<>> ELSE seqs[i] \o Flatten(seqs, i + 1)

extractValidIds(taxonomy) ==
    LET cats == taxonomy.categories
    IN  [categories |-> SetAdd([i \in DOMAIN cats |-> cats[i].id], <<>>, 1),
         subcategories |->
             SetAdd(Flatten([i \in DOMAIN cats |->
                        [j \in DOMAIN cats[i].subcategories |-> cats[i].subcategories[j].id]], 1),
                    <<>>, 1)]

\* the fallback when no taxonomy is given
DefaultValidIds ==
    [categories |-> <<Str2("C", "1"), Str2("C", "2"), Str2("C", "3"),
                      Str2("C", "4"), Str2("C", "5"), Str2("C", "6")>>,
     subcategories |-> <<>>]

\* if (!cat) return false; return validIds.has(cat.trim())
isValidCategory(cat, validIds) ==
    IF cat = JsNull \/ cat = <<>> THEN FALSE
    ELSE \E i \in DOMAIN validIds : validIds[i] = Trim(cat)

\* the category as it stands, blanks kept
UntrimmedCategory(c) == IF c.category = JsNull THEN <<>> ELSE c.category

\* c.category?.trim() || ""
TrimmedCategory(c) == IF c.category = JsNull THEN <<>> ELSE Trim(c.category)

\* the loop that fills catCounts and counts the malformed records
RECURSIVE catCountsFrom(_, _, _, _)
catCountsFrom(clf, validCats, i, acc) ==
    IF i > Len(clf) THEN acc
    ELSE LET cat == TrimmedCategory(clf[i])
             valid == isValidCategory(cat, validCats)
             key == IF valid THEN cat ELSE IF cat = <<>> THEN EmptyLabel ELSE cat
             at == KeyIndex(acc.catCounts, key)
             counts == IF at = 0
                       THEN Append(acc.catCounts, [key |-> key, count |-> 1])
                       ELSE [acc.catCounts EXCEPT ![at].count = acc.catCounts[at].count + 1]
         IN  catCountsFrom(clf, validCats, i + 1,
                 [catCounts |-> counts,
                  malformed |-> IF valid THEN acc.malformed ELSE acc.malformed + 1])

\* a percentage cut to one decimal instead of rounded
PctTruncated(count, total) == (count * 1000) \div total

\* +((count / total) * 100).toFixed(1), in tenths of a percent
Pct(count, total) == Round(count * 1000, total)

categoryDistribution(catCounts, total, validCats) ==
    SortByCountDesc(
        [i \in DOMAIN catCounts |->
            [category |-> catCounts[i].key,
             count |-> catCounts[i].count,
             pct |-> Pct(catCounts[i].count, total),
             isValid |-> isValidCategory(catCounts[i].key, validCats)]],
        1, <<>>)

(***************************************************************************)
(* processPhase2.ts: subcategory formats.  A label is compared only for    *)
(* equality, so it is kept as one string.                                  *)
(***************************************************************************)
UpperLetters ==
    <<"A", "B", "C", "D", "E", "F", "G", "H", "I", "J", "K", "L", "M",
      "N", "O", "P", "Q", "R", "S", "T", "U", "V", "W", "X", "Y", "Z">>
LowerLetters ==
    <<"a", "b", "c", "d", "e", "f", "g", "h", "i", "j", "k", "l", "m",
      "n", "o", "p", "q", "r", "s", "t", "u", "v", "w", "x", "y", "z">>
Digits == {"0", "1", "2", "3", "4", "5", "6", "7", "8", "9"}

\* [A-Z], [a-z] and \d
IsUpper(ch) == \E i \in DOMAIN UpperLetters : UpperLetters[i] = ch
IsLower(ch) == \E i \in DOMAIN LowerLetters : LowerLetters[i] = ch
IsDigit(ch) == ch \in Digits

StrLowerNull == <<"n", "u", "l", "l">>
StrNone == <<"N", "o", "n", "e">>
StrNA == <<"N", "/", "A">>
StrParenNull == <<"(", "n", "u", "l", "l", ")">>

FormatNullEmpty == "Null / Empty"
FormatCorrect == "Correct (matches taxonomy)"
FormatLetterOnly == "Letter only (A, B, C)"
FormatLetterNumber == "Letter+number (A1, B2)"
FormatAltPrefix == "Alt prefix (A2b, B1a)"
FormatLowercase == "Lowercase letter (a, b, c)"
FormatCategoryId == "Category ID as subcategory"
FormatWrongPrefix == "Wrong category prefix"
FormatOther == "Other / Unrecognized"

\* vid.replace(/[a-z]+$/, "")
RECURSIVE catPart(_)
catPart(vid) ==
    IF vid # <<>> /\ IsLower(vid[Len(vid)])
    THEN catPart(SubSeq(vid, 1, Len(vid) - 1))
    ELSE vid

\* s.startsWith(prefix)
startsWith(s, prefix) == Len(prefix) <= Len(s) /\ SubSeq(s, 1, Len(prefix)) = prefix

\* !sub || sub === "null" || sub === "None" || sub === "N/A"
IsNullEmpty(sub) == sub = JsNull \/ sub = <<>> \/ sub \in {StrLowerNull, StrNone, StrNA}

detectSubcategoryFormat(sub, validSubIds) ==
    IF IsNullEmpty(sub) THEN FormatNullEmpty
    ELSE LET s == Trim(sub)
         IN  IF \E i \in DOMAIN validSubIds : validSubIds[i] = s THEN FormatCorrect
             ELSE IF Len(s) = 1 /\ IsUpper(s[1]) THEN FormatLetterOnly
             ELSE IF Len(s) = 2 /\ IsUpper(s[1]) /\ IsDigit(s[2]) THEN FormatLetterNumber
             ELSE IF Len(s) = 3 /\ IsUpper(s[1]) /\ IsDigit(s[2]) /\ IsLower(s[3])
                  THEN FormatAltPrefix
             ELSE IF Len(s) = 1 /\ IsLower(s[1]) THEN FormatLowercase
             ELSE IF \E i \in DOMAIN validSubIds : s = catPart(validSubIds[i])
                  THEN FormatCategoryId
             ELSE IF \E i \in DOMAIN validSubIds :
                         /\ startsWith(s, catPart(validSubIds[i]))
                         /\ Len(s) > Len(catPart(validSubIds[i]))
                  THEN FormatWrongPrefix
             ELSE FormatOther

\* the loop that fills formatCounts
RECURSIVE formatCountsFrom(_, _, _, _)
formatCountsFrom(clf, validSubIds, i, formatCounts) ==
    IF i > Len(clf) THEN formatCounts
    ELSE LET sub == clf[i].subcategory
             fmt == detectSubcategoryFormat(sub, validSubIds)
             at == KeyIndex(formatCounts, fmt)
             example == IF sub = JsNull \/ sub = <<>> THEN StrParenNull ELSE sub
         IN  formatCountsFrom(clf, validSubIds, i + 1,
                 IF at = 0
                 THEN Append(formatCounts, [key |-> fmt, count |-> 1, example |-> example])
                 ELSE [formatCounts EXCEPT ![at].count = formatCounts[at].count + 1])

subcategoryFormats(formatCounts) ==
    SortByCountDesc(
        [i \in DOMAIN formatCounts |->
            [format |-> formatCounts[i].key,
             count |-> formatCounts[i].count,
             example |-> formatCounts[i].example]],
        1, <<>>)

subNullCount(clf, validSubIds) ==
    Cardinality({i \in DOMAIN clf :
                    detectSubcategoryFormat(clf[i].subcategory, validSubIds) = FormatNullEmpty})

(***************************************************************************)
(* processPhase2.ts: batch health.                                         *)
(***************************************************************************)
\* the number of full batches only
totalBatchesFloor(metadata) == metadata.total_messages \div metadata.batch_size

\* Math.ceil(total_messages / batch_size) for a batch size of at least 1
totalBatches(metadata) ==
    (metadata.total_messages + metadata.batch_size - 1) \div metadata.batch_size

\* batchMap[i]: the classifications that carry batch index i
batchClassified(clf, i) == Cardinality({j \in DOMAIN clf : clf[j].batch = i})

batchMalformed(clf, i, validCats) ==
    Cardinality({j \in DOMAIN clf :
                    clf[j].batch = i /\ ~isValidCategory(clf[j].category, validCats)})

\* for (let i = 0; i < totalBatches; i++)
RECURSIVE batchLoop(_, _, _, _, _, _)
batchLoop(clf, validCats, batch_size, total, i, acc) ==
    IF ~(i < total) THEN acc
    ELSE batchLoop(clf, validCats, batch_size, total, i + 1,
             IF batchClassified(clf, i) > 0
             THEN [acc EXCEPT !.batchHealth =
                       Append(@, [batch |-> i,
                                  classified |-> batchClassified(clf, i),
                                  malformed |-> batchMalformed(clf, i, validCats),
                                  expected |-> batch_size])]
             ELSE [acc EXCEPT !.missingBatches = Append(@, i)])

(***************************************************************************)
(* processPhase2.ts: themes, candidate categories and the bias score.      *)
(***************************************************************************)
\* String.prototype.toLowerCase on the letters A-Z
LowerChar(ch) ==
    IF IsUpper(ch)
    THEN LowerLetters[CHOOSE i \in DOMAIN UpperLetters : UpperLetters[i] = ch]
    ELSE ch

toLowerCase(str) == [i \in DOMAIN str |-> LowerChar(str[i])]

\* t.toLowerCase().trim().replace(/_/g, " ")
normalizeTheme(t) ==
    LET trimmed == Trim(toLowerCase(t))
    IN  [i \in DOMAIN trimmed |-> IF trimmed[i] = "_" THEN " " ELSE trimmed[i]]

RECURSIVE themeCountsFrom(_, _, _)
themeCountsFrom(themes, i, themeCounts) ==
    IF i > Len(themes) THEN themeCounts
    ELSE LET normalized == normalizeTheme(themes[i])
             at == KeyIndex(themeCounts, normalized)
         IN  themeCountsFrom(themes, i + 1,
                 IF normalized = <<>> THEN themeCounts
                 ELSE IF at = 0 THEN Append(themeCounts, [key |-> normalized, count |-> 1])
                 ELSE [themeCounts EXCEPT ![at].count = themeCounts[at].count + 1])

TopThemesN == 20

topThemes(clf) ==
    LET counts == themeCountsFrom(Flatten([i \in DOMAIN clf |-> clf[i].themes], 1), 1, <<>>)
        sorted == SortByCountDesc([i \in DOMAIN counts |->
                                      [theme |-> counts[i].key, count |-> counts[i].count]],
                                  1, <<>>)
    IN  SubSeq(sorted, 1, Min2(TopThemesN, Len(sorted)))

candidateCategories(candidate_categories) ==
    SortByCountDesc([i \in DOMAIN candidate_categories |->
                        [name |-> candidate_categories[i].key,
                         count |-> candidate_categories[i].count]],
                    1, <<>>)

\* toFixed(1) rounds the magnitude, so a negative tie goes away from zero
RoundHalfAway(num, den) == IF num >= 0 THEN Round(num, den) ELSE -Round(-num, den)

\* the top count as a share of all classifications instead of the uniform expectation
biasScoreOfTotal(validOnlyCounts, total, validCount) ==
    IF validOnlyCounts = <<>> THEN 0
    ELSE RoundHalfAway((validOnlyCounts[1].count - total) * 1000, total)

\* +((topCategory.count / expectedUniform - 1) * 100).toFixed(1) in tenths of a percent,
\* with expectedUniform = clf.length / validCatArray.length
biasScore(validOnlyCounts, total, validCount) ==
    IF validOnlyCounts = <<>> THEN 0
    ELSE RoundHalfAway((validOnlyCounts[1].count * validCount - total) * 1000, total)

processPhase2(data, taxonomy) ==
    LET clf == data.classifications
        metadata == data.metadata
        validIds == IF taxonomy.present THEN extractValidIds(taxonomy) ELSE DefaultValidIds
        counted == catCountsFrom(clf, validIds.categories, 1,
                                 [catCounts |-> <<>>, malformed |-> 0])
        distribution == categoryDistribution(counted.catCounts, Len(clf), validIds.categories)
        batches == batchLoop(clf, validIds.categories, metadata.batch_size,
                             totalBatches(metadata), 0,
                             [batchHealth |-> <<>>, missingBatches |-> <<>>])
        validOnlyCounts == SelectSeq(distribution, LAMBDA c : c.isValid)
    IN  [totalClassified |-> metadata.total_classified,
         totalMessages |-> metadata.total_messages,
         successRate |-> Pct(metadata.total_classified, metadata.total_messages),
         categoryDistribution |-> distribution,
         validCategories |-> validIds.categories,
         malformedCount |-> counted.malformed,
         malformedPct |-> Pct(counted.malformed, Len(clf)),
         subcategoryFormats |->
             subcategoryFormats(formatCountsFrom(clf, validIds.subcategories, 1, <<>>)),
         subcategoryNullCount |-> subNullCount(clf, validIds.subcategories),
         batchHealth |-> batches.batchHealth,
         missingBatches |-> batches.missingBatches,
         topThemes |-> topThemes(clf),
         candidateCategories |-> candidateCategories(data.candidate_categories),
         c4BiasScore |-> biasScore(validOnlyCounts, Len(clf), Len(validIds.categories)),
         biasCategory |-> IF validOnlyCounts = <<>> THEN <<>>
                          ELSE validOnlyCounts[1].category]

(***************************************************************************)
(* Inputs of processPhase2.                                                *)
(***************************************************************************)
\* category values: valid ids, one with surrounding blanks, unknown ids, and the
\* empty, blank and null values
CategoryValues ==
    <<Str2("C", "1"), Str2("C", "2"), Str2("C", "3"), Str2("C", "4"),
      <<" ", "C", "1", " ">>, Str2("X", "9"), <<>>, <<" ">>, JsNull>>

\* a classification of the given batch with a subcategory and one theme
ClassificationOf(batch, cat, sub) ==
    [batch |-> batch, category |-> cat, subcategory |-> sub,
     themes |-> <<<<"T", "e", "a", "m", "_", "U", "p">>>>, new_category |-> JsNull]

Classification(cat) ==
    [batch |-> 0, category |-> cat, subcategory |-> JsNull, themes |-> <<>>,
     new_category |-> JsNull]

\* the non-decreasing index sequences of length <= n over 1..k
RECURSIVE NonDecreasing(_, _)
NonDecreasing(n, k) ==
    IF n = 0 THEN {<<>>}
    ELSE LET shorter == NonDecreasing(n - 1, k)
         IN  shorter \cup
             UNION {{Append(q, x) : x \in (IF q = <<>> THEN 1 ELSE q[Len(q)])..k} :
                       q \in {p \in shorter : Len(p) = n - 1}}

\* no taxonomy argument
NoTaxonomy == [present |-> FALSE, categories |-> <<>>]

\* a taxonomy with two categories and their subcategories
SmallTaxonomy ==
    [present |-> TRUE,
     categories |->
        <<[id |-> Str2("C", "1"), name |-> <<"T", "e", "a", "m">>,
           subcategories |-> <<[id |-> <<"C", "1", "a">>, name |-> <<"H", "e", "l", "p">>]>>],
          [id |-> Str2("C", "2"), name |-> <<"I", "d", "e", "a">>,
           subcategories |-> <<>>]>>]

\* a taxonomy whose two categories both have a subcategory family
TwoFamilyTaxonomy ==
    [present |-> TRUE,
     categories |->
        <<[id |-> Str2("C", "1"), name |-> <<"T", "e", "a", "m">>,
           subcategories |-> <<[id |-> <<"C", "1", "a">>, name |-> <<"H", "e", "l", "p">>]>>],
          [id |-> Str2("C", "2"), name |-> <<"I", "d", "e", "a">>,
           subcategories |-> <<[id |-> <<"C", "2", "a">>, name |-> <<"N", "e", "w">>]>>]>>]

\* a taxonomy with a subcategory whose id is N/A
NotApplicableTaxonomy ==
    [present |-> TRUE,
     categories |->
        <<[id |-> Str2("C", "1"), name |-> <<"T", "e", "a", "m">>,
           subcategories |-> <<[id |-> <<"C", "1", "a">>, name |-> <<"H", "e", "l", "p">>],
                               [id |-> StrNA, name |-> <<"R", "e", "s", "t">>]>>]>>]

\* the taxonomy of the bias scenario: categories A and B
ABTaxonomy ==
    [present |-> TRUE,
     categories |->
        <<[id |-> <<"A">>, name |-> <<"A", "l", "p", "h", "a">>, subcategories |-> <<>>],
          [id |-> <<"B">>, name |-> <<"B", "e", "t", "a">>, subcategories |-> <<>>]>>]

\* candidate_categories: proposed category names with their counts
CandidateCategories ==
    <<[key |-> <<"F", "u", "n">>, count |-> 1], [key |-> <<"C", "a", "r", "e">>, count |-> 3]>>

Phase2Data(clf, total_messages, total_classified, batch_size) ==
    [classifications |-> clf,
     metadata |-> [total_messages |-> total_messages,
                   total_classified |-> total_classified,
                   batch_size |-> batch_size],
     candidate_categories |-> CandidateCategories]

\* lists that vary the category: one batch that holds every message
Phase2Inputs ==
    LET free == SeqsUpTo(1..Len(CategoryValues), MaxClfFree)
        grouped == NonDecreasing(MaxClf, Len(CategoryValues))
    IN  {[data |-> Phase2Data([i \in DOMAIN q |-> Classification(CategoryValues[q[i]])],
                              Len(q), Len(q), Len(q)),
          taxonomy |-> t] :
            q \in (free \cup grouped) \ {<<>>}, t \in {NoTaxonomy, SmallTaxonomy}}

\* the bias scenario: ten classifications of category A
BiasScenario ==
    [data |-> Phase2Data([i \in 1..10 |-> Classification(<<"A">>)], 10, 10, 10),
     taxonomy |-> ABTaxonomy]

\* subcategory values: null and its spellings, taxonomy ids, and the weak patterns
SubcategoryValues ==
    <<JsNull, <<>>, StrLowerNull, StrNone, StrNA, <<"C", "1", "a">>, <<" ", "C", "1", "a", " ">>,
      <<"A">>, <<"A", "1">>, <<"A", "2", "b">>, <<"a">>, <<"C", "1">>,
      <<"C", "1", "a", "b">>, <<"C", "2", "a", "b">>, <<"C", "1", "b">>, <<"z", "z">>, <<" ">>>>

SubcategoryTaxonomies ==
    {NoTaxonomy, SmallTaxonomy, TwoFamilyTaxonomy, NotApplicableTaxonomy}

\* lists that vary the subcategory
SubcategoryInputs(cat, q, t) ==
    [data |-> Phase2Data([i \in DOMAIN q |-> ClassificationOf(0, cat, SubcategoryValues[q[i]])],
                         Len(q), Len(q), Len(q)),
     taxonomy |-> t]

\* lists that vary the batch index, with the declared totals and batch size
BatchInputs(q, total_messages, batch_size) ==
    [data |-> Phase2Data([i \in DOMAIN q |-> ClassificationOf(q[i][1], q[i][2], JsNull)],
                         total_messages, Len(q), batch_size),
     taxonomy |-> NoTaxonomy]

Phase2Init ==
    /\ pc = "phase2"
    /\ \/ phase2 \in Phase2Inputs
       \/ phase2 = BiasScenario
       \/ \E n \in 1..MaxSubClf : \E q \in [1..n -> 1..Len(SubcategoryValues)] :
             \E t \in SubcategoryTaxonomies :
                phase2 = SubcategoryInputs(Str2("C", "1"), q, t)
       \/ \E v \in 1..Len(SubcategoryValues) : \E t \in SubcategoryTaxonomies :
             phase2 = SubcategoryInputs(Str2("C", "2"), <<v>>, t)
       \/ \E n \in 1..MaxBatchClf :
             \E q \in [1..n -> (0..MaxBatch) \X {Str2("C", "1"), JsNull}] :
                \E total_messages \in 1..MaxMessages : \E batch_size \in 1..MaxBatchSize :
                   phase2 = BatchInputs(q, total_messages, batch_size)
    /\ analysis = None
    /\ raw = None
    /\ titleCount = None
    /\ captureRecapture = None
    /\ recommended = None
    /\ rows = None
    /\ interactions = None
    /\ runs = None
    /\ comparison = None
    /\ csvText = None
    /\ records = None
    /\ LaterIdle

\* processPhase2(data, taxonomy)
ProcessPhase2 ==
    /\ pc = "phase2"
    /\ analysis' = processPhase2(phase2.data, phase2.taxonomy)
    /\ pc' = "analysed"
    /\ UNCHANGED laterVars
    /\ UNCHANGED <<raw, titleCount, captureRecapture, recommended, rows, interactions, phase2,
                 runs, comparison, csvText, records>>

Phase2Next == ProcessPhase2

SpecPhase2 == Phase2Init /\ [][Phase2Next]_vars

(***************************************************************************)
(* Claims about processPhase2, checked under SpecPhase2.                   *)
(***************************************************************************)
RECURSIVE SumPct(_, _)
SumPct(dist, i) == IF i > Len(dist) THEN 0 ELSE dist[i].pct + SumPct(dist, i + 1)

\* the sum of the pct values of all buckets, in tenths of a percent
C10_PctSum == SumPct(analysis.categoryDistribution, 1)

\* C10 as stated: for every non-empty classification list and every taxonomy the
\* pct values of categoryDistribution, summed over all buckets, lie within 0.1 of 100.
C10_PctSumWithinOneTenth ==
    pc = "analysed" => (C10_PctSum >= 999 /\ C10_PctSum <= 1001)

\* C10 amended: every pct is its bucket's share rounded to one decimal, so the sum
\* over all buckets lies within 0.05 * (number of buckets) of 100.
C10_PctSumWithinHalfTenthPerBucket ==
    pc = "analysed"
    => LET buckets == Len(analysis.categoryDistribution)
       IN  /\ 2 * (C10_PctSum - 1000) <= buckets
           /\ 2 * (1000 - C10_PctSum) <= buckets

\* six buckets of one classification each: 6 * 16.7 = 100.2
C10_Witness ==
    /\ pc = "analysed"
    /\ Len(analysis.categoryDistribution) = 6
    /\ \A i \in 1..6 : analysis.categoryDistribution[i].pct = 167
    /\ C10_PctSum = 1002

\* the category ids of the taxonomy in force, and how many classifications carry each
C11_Ids ==
    IF phase2.taxonomy.present
    THEN {phase2.taxonomy.categories[i].id : i \in DOMAIN phase2.taxonomy.categories}
    ELSE {Str2("C", "1"), Str2("C", "2"), Str2("C", "3"),
          Str2("C", "4"), Str2("C", "5"), Str2("C", "6")}
C11_Count(id) ==
    Cardinality({i \in DOMAIN phase2.data.classifications :
                    phase2.data.classifications[i].category # JsNull
                    /\ Trim(phase2.data.classifications[i].category) = id})
C11_TopCount == CHOOSE n \in 0..Len(phase2.data.classifications) :
                    /\ \A id \in C11_Ids : C11_Count(id) <= n
                    /\ n = 0 \/ \E id \in C11_Ids : C11_Count(id) = n

\* C11: when some classification has a valid category, c4BiasScore is
\* (count / expected - 1) * 100 rounded to one decimal for the valid category with the
\* highest count, with expected = classifications / taxonomy categories; the scenario
\* of categories {A, B} and ten classifications of A gives 100.
C11_BiasScoreOfTopCategory ==
    pc = "analysed"
    => LET total == Len(phase2.data.classifications)
           exact == (C11_TopCount * Cardinality(C11_Ids) - total) * 1000
           diff == analysis.c4BiasScore * total - exact
       IN  /\ C11_TopCount > 0
              => /\ 2 * diff <= total /\ -2 * diff <= total
                 /\ analysis.biasCategory \in C11_Ids
                 /\ C11_Count(analysis.biasCategory) = C11_TopCount
           /\ phase2 = BiasScenario => analysis.c4BiasScore = 1000

\* the scenario has been analysed
C11_Witness ==
    /\ pc = "analysed"
    /\ phase2.taxonomy = ABTaxonomy
    /\ Len(phase2.data.classifications) = 10
    /\ \A i \in 1..10 : phase2.data.classifications[i].category = <<"A">>
    /\ analysis.biasCategory = <<"A">>
    /\ analysis.c4BiasScore = 1000

\* the subcategory ids of the taxonomy in force (none without a taxonomy)
C12_SubIds ==
    IF phase2.taxonomy.present
    THEN UNION {{phase2.taxonomy.categories[i].subcategories[j].id :
                    j \in DOMAIN phase2.taxonomy.categories[i].subcategories} :
                i \in DOMAIN phase2.taxonomy.categories}
    ELSE {}

\* the count reported under a format label, 0 when the label has no row
C12_FormatCount(fmt) ==
    LET at == {i \in DOMAIN analysis.subcategoryFormats :
                  analysis.subcategoryFormats[i].format = fmt}
    IN  IF at = {} THEN 0 ELSE analysis.subcategoryFormats[CHOOSE i \in at : TRUE].count

\* C12: the exact taxonomy match is the first rule of the cascade, so every
\* classification whose trimmed subcategory is a taxonomy subcategory id is counted
\* under "Correct (matches taxonomy)".
C12_ExactMatchLabelledCorrect ==
    pc = "analysed"
    => C12_FormatCount(FormatCorrect)
         = Cardinality({i \in DOMAIN phase2.data.classifications :
                           /\ phase2.data.classifications[i].subcategory # JsNull
                           /\ Trim(phase2.data.classifications[i].subcategory) \in C12_SubIds})

\* the categories of the taxonomy other than the one assigned to classification c
C13_OtherFamilyPrefixes(c) ==
    IF phase2.taxonomy.present
    THEN UNION {{catPart(phase2.taxonomy.categories[i].subcategories[j].id) :
                    j \in DOMAIN phase2.taxonomy.categories[i].subcategories} :
                i \in {k \in DOMAIN phase2.taxonomy.categories :
                          c.category = JsNull
                          \/ phase2.taxonomy.categories[k].id # Trim(c.category)}}
    ELSE {}

\* C13: "Wrong category prefix" is given only to a subcategory value that starts with
\* the prefix of a subcategory family of a category other than the assigned one, so the
\* count under that label never exceeds the number of such classifications.
C13_WrongPrefixOnlyForOtherCategory ==
    pc = "analysed"
    => C12_FormatCount(FormatWrongPrefix)
         <= Cardinality({i \in DOMAIN phase2.data.classifications :
                           /\ phase2.data.classifications[i].subcategory # JsNull
                           /\ \E p \in C13_OtherFamilyPrefixes(phase2.data.classifications[i]) :
                                 startsWith(Trim(phase2.data.classifications[i].subcategory), p)})

\* ceil(total_messages / batch_size): the least n with n * batch_size >= total_messages
C14_Expected ==
    CHOOSE n \in 0..phase2.data.metadata.total_messages :
        /\ n * phase2.data.metadata.batch_size >= phase2.data.metadata.total_messages
        /\ \A k \in 0..(n - 1) :
              k * phase2.data.metadata.batch_size < phase2.data.metadata.total_messages
C14_Carried ==
    {phase2.data.classifications[i].batch : i \in DOMAIN phase2.data.classifications}

\* C14: missingBatches holds exactly the indices of [0, ceil(total_messages / batch_size))
\* that no classification carries, in ascending order, and every index of the range is
\* in exactly one of batchHealth and missingBatches.
C14_MissingBatchesExact ==
    pc = "analysed"
    => LET missing == analysis.missingBatches
           health == analysis.batchHealth
       IN  /\ {missing[i] : i \in DOMAIN missing} = (0..(C14_Expected - 1)) \ C14_Carried
           /\ \A i, j \in DOMAIN missing : i < j => missing[i] < missing[j]
           /\ \A b \in 0..(C14_Expected - 1) :
                 Cardinality({i \in DOMAIN missing : missing[i] = b})
                   + Cardinality({i \in DOMAIN health : health[i].batch = b}) = 1

\* a run whose last batch is partial, with a missing batch, a present one, and a
\* classification whose batch index lies outside the expected range
C14_Witness ==
    /\ pc = "analysed"
    /\ Len(analysis.missingBatches) >= 1
    /\ Len(analysis.batchHealth) >= 1
    /\ \E b \in C14_Carried : b >= C14_Expected
    /\ phase2.data.metadata.total_messages
         < C14_Expected * phase2.data.metadata.batch_size

\* the classifications whose trimmed category is no id of the taxonomy in force
C15_Invalid ==
    {i \in DOMAIN phase2.data.classifications :
        \/ phase2.data.classifications[i].category = JsNull
        \/ Trim(phase2.data.classifications[i].category) \notin C11_Ids}
C15_Label(i) ==
    IF phase2.data.classifications[i].category = JsNull
       \/ Trim(phase2.data.classifications[i].category) = <<>>
    THEN EmptyLabel
    ELSE Trim(phase2.data.classifications[i].category)

\* C15: processPhase2 returns for every list; malformedCount is the number of
\* classifications whose trimmed category is no taxonomy id, and each of them is counted
\* in exactly one bucket, flagged invalid, null and blank values under "(empty)".
C15_MalformedCountedOnce ==
    pc = "analysed"
    => LET dist == analysis.categoryDistribution
       IN  /\ analysis.malformedCount = Cardinality(C15_Invalid)
           /\ \A i \in C15_Invalid :
                 \E b \in DOMAIN dist :
                    /\ dist[b].category = C15_Label(i)
                    /\ ~dist[b].isValid
                    /\ dist[b].count
                         = Cardinality({j \in C15_Invalid : C15_Label(j) = C15_Label(i)})
                    /\ \A o \in DOMAIN dist : dist[o].category = C15_Label(i) => o = b

\* a list with a null, an empty, a blank and an unknown category next to a valid one
C15_Witness ==
    /\ pc = "analysed"
    /\ \E i, j, k, l, v \in DOMAIN phase2.data.classifications :
          /\ phase2.data.classifications[i].category = JsNull
          /\ phase2.data.classifications[j].category = <<>>
          /\ phase2.data.classifications[k].category = <<" ">>
          /\ phase2.data.classifications[l].category = Str2("X", "9")
          /\ v \notin C15_Invalid
    /\ analysis.malformedCount = 4
    /\ \E b \in DOMAIN analysis.categoryDistribution :
          /\ analysis.categoryDistribution[b].category = EmptyLabel
          /\ analysis.categoryDistribution[b].count = 3

(***************************************************************************)
(* processComparison.ts: scores, category overlap, taxonomy diff and radar *)
(* rows of several pipeline rs.  An optional member of a run (taxonomy,  *)
(* phase2, summary) is a record with a `present` flag.                     *)
(***************************************************************************)
\* getValidCategoryIds: the ids a Set holds, none without a taxonomy
getValidCategoryIds(taxonomy) ==
    IF ~taxonomy.present THEN <<>>
    ELSE SetAdd([i \in DOMAIN taxonomy.categories |-> taxonomy.categories[i].id], <<>>, 1)

getValidSubcategoryIds(taxonomy) ==
    IF ~taxonomy.present THEN <<>>
    ELSE extractValidIds(taxonomy).subcategories

\* catIds.has(c.category.trim()) for a category that is not null or empty
HasTrimmed(ids, value) ==
    value # JsNull /\ value # <<>> /\ \E i \in DOMAIN ids : ids[i] = Trim(value)

\* Math.max(0, ...Object.values(catCounts)): the largest count of a valid category
maxCount(clf, catIds) ==
    LET counts == {Cardinality({j \in DOMAIN clf : TrimmedCategory(clf[j]) = catIds[i]}) :
                      i \in DOMAIN catIds} \cup {0}
    IN  CHOOSE n \in counts : \A k \in counts : k <= n

RECURSIVE SumLen(_, _)
SumLen(cats, i) ==
    IF i > Len(cats) THEN 0 ELSE Len(cats[i].subcategories) + SumLen(cats, i + 1)

computeScore(run) ==
    LET taxonomy == run.taxonomy
        catIds == getValidCategoryIds(taxonomy)
        subIds == getValidSubcategoryIds(taxonomy)
        scored == run.phase2.present /\ Len(run.phase2.classifications) > 0
        clf == run.phase2.classifications
        total == Len(clf)
        malformed == Cardinality({i \in DOMAIN clf : ~HasTrimmed(catIds, clf[i].category)})
        correctSub == Cardinality({i \in DOMAIN clf : HasTrimmed(subIds, clf[i].subcategory)})
    IN  [pipeline |-> run.name,
         successRate |->
             IF scored THEN Pct(run.phase2.metadata.total_classified,
                                run.phase2.metadata.total_messages)
             ELSE 0,
         malformedPct |-> IF scored THEN Pct(malformed, total) ELSE 0,
         biasScore |->
             IF scored
             THEN RoundHalfAway((maxCount(clf, catIds) * Max2(1, Len(catIds)) - total) * 1000,
                                total)
             ELSE 0,
         formatConsistency |-> IF scored THEN Pct(correctSub, total) ELSE 0,
         categoryCount |-> IF taxonomy.present THEN Len(taxonomy.categories) ELSE 0,
         subcategoryCount |-> IF taxonomy.present THEN SumLen(taxonomy.categories, 1) ELSE 0,
         timeSeconds |-> IF run.summary.present THEN run.summary.pipeline.total_time_seconds
                         ELSE 0,
         candidatesFound |-> IF run.phase2.present THEN Len(run.phase2.candidate_categories)
                             ELSE 0]

\* idToName[catId] || catId: the name of the last category with that id, the id itself
\* when the name is empty
nameOfId(taxonomy, catId) ==
    LET at == {i \in DOMAIN taxonomy.categories : taxonomy.categories[i].id = catId}
        last == CHOOSE i \in at : \A k \in at : k <= i
    IN  IF taxonomy.categories[last].name = <<>> THEN catId
        ELSE taxonomy.categories[last].name

\* the category names of the validly classified messages of a run, in input order
RECURSIVE validNamesFrom(_, _, _)
validNamesFrom(run, catIds, i) ==
    IF i > Len(run.phase2.classifications) THEN <<>>
    ELSE LET catId == TrimmedCategory(run.phase2.classifications[i])
         IN  (IF \E k \in DOMAIN catIds : catIds[k] = catId THEN <<nameOfId(run.taxonomy, catId)>> ELSE <<>>)
             \o validNamesFrom(run, catIds, i + 1)

validNames(run) ==
    IF ~run.phase2.present THEN <<>>
    ELSE validNamesFrom(run, getValidCategoryIds(run.taxonomy), 1)

\* pipelineCatCounts[name]?.[category] || 0: the counts of the last run of that name
\* that has classifications
pipelineCount(rs, name, category) ==
    LET at == {i \in DOMAIN rs : rs[i].name = name /\ rs[i].phase2.present}
        last == CHOOSE i \in at : \A k \in at : k <= i
    IN  IF at = {} THEN 0
        ELSE Cardinality({j \in DOMAIN validNames(rs[last]) :
                             validNames(rs[last])[j] = category})

RECURSIVE SumValues(_, _)
SumValues(dict, i) == IF i > Len(dict) THEN 0 ELSE dict[i].value + SumValues(dict, i + 1)

computeCategoryOverlap(rs) ==
    LET allCatNames == SetAdd(Flatten([i \in DOMAIN rs |-> validNames(rs[i])], 1), <<>>, 1)
        names == SetAdd([i \in DOMAIN rs |-> rs[i].name], <<>>, 1)
        pipelines(category) ==
            [i \in DOMAIN names |->
                [key |-> names[i], value |-> pipelineCount(rs, names[i], category)]]
        sorted == SortByCountDesc(
                      [i \in DOMAIN allCatNames |->
                          [category |-> allCatNames[i],
                           pipelines |-> pipelines(allCatNames[i]),
                           count |-> SumValues(pipelines(allCatNames[i]), 1)]],
                      1, <<>>)
    IN  [i \in DOMAIN sorted |->
            [category |-> sorted[i].category, pipelines |-> sorted[i].pipelines]]

\* the loop that fills catMap, keyed by cat.name.toLowerCase().trim()
RECURSIVE catMapFrom(_, _, _)
catMapFrom(named, i, catMap) ==
    IF i > Len(named) THEN catMap
    ELSE LET key == Trim(toLowerCase(named[i].name))
             at == KeyIndex(catMap, key)
         IN  catMapFrom(named, i + 1,
                 IF at = 0
                 THEN Append(catMap, [key |-> key, name |-> named[i].name,
                                      presentIn |-> <<named[i].run>>])
                 ELSE [catMap EXCEPT ![at].presentIn =
                           SetAdd(<<named[i].run>>, catMap[at].presentIn, 1)])

computeTaxonomyDiff(rs) ==
    LET named == Flatten([i \in DOMAIN rs |->
                             IF ~rs[i].taxonomy.present THEN <<>>
                             ELSE [j \in DOMAIN rs[i].taxonomy.categories |->
                                      [name |-> rs[i].taxonomy.categories[j].name,
                                       run |-> rs[i].name]]], 1)
        catMap == catMapFrom(named, 1, <<>>)
        allPipelines == [i \in DOMAIN rs |-> rs[i].name]
        sorted == SortByCountDesc(
                      [i \in DOMAIN catMap |->
                          [entry |-> catMap[i], count |-> Len(catMap[i].presentIn)]],
                      1, <<>>)
    IN  [i \in DOMAIN sorted |->
            [categoryId |-> <<>>,
             categoryName |-> sorted[i].entry.name,
             presentIn |-> sorted[i].entry.presentIn,
             missingFrom |->
                 SelectSeq(allPipelines,
                           LAMBDA p : ~\E k \in DOMAIN sorted[i].entry.presentIn :
                                          sorted[i].entry.presentIn[k] = p)]]

\* the direct metrics; a percentage is kept in tenths, and so is its ceiling
RadarMetrics ==
    <<[key |-> "successRate", label |-> "Success Rate", max |-> 100 * 10],
      [key |-> "formatConsistency", label |-> "Format Consistency", max |-> 100 * 10],
      [key |-> "categoryCount", label |-> "Category Richness", max |-> 10],
      [key |-> "candidatesFound", label |-> "Discovery", max |-> 20]>>

\* the metrics where lower is better
InvertedMetrics ==
    <<[key |-> "malformedPct", label |-> "Output Quality", max |-> 100 * 10],
      [key |-> "biasScore", label |-> "Balance", max |-> 200 * 10]>>

\* an inverted value that is the raw value again
invertedValueRaw(max, rawValue) == rawValue

\* Math.max(0, m.max - raw)
invertedValue(max, rawValue) == Max2(0, max - rawValue)

\* one row of the radar: the metric, its ceiling, and one value per pipeline; a later
\* score of the same pipeline name overwrites an earlier one
radarRow(m, scores, inverted) ==
    LET names == SetAdd([i \in DOMAIN scores |-> scores[i].pipeline], <<>>, 1)
        lastOf(name) == CHOOSE i \in DOMAIN scores :
                            /\ scores[i].pipeline = name
                            /\ \A k \in DOMAIN scores : scores[k].pipeline = name => k <= i
    IN  [metric |-> m.label, fullMark |-> m.max,
         values |-> [i \in DOMAIN names |->
                        [key |-> names[i],
                         value |-> IF inverted
                                   THEN invertedValue(m.max, scores[lastOf(names[i])][m.key])
                                   ELSE scores[lastOf(names[i])][m.key]]]]

computeRadar(scores) ==
    [i \in DOMAIN RadarMetrics |-> radarRow(RadarMetrics[i], scores, FALSE)]
    \o [i \in DOMAIN InvertedMetrics |-> radarRow(InvertedMetrics[i], scores, TRUE)]

processComparison(rs) ==
    LET scores == [i \in DOMAIN rs |-> computeScore(rs[i])]
    IN  [pipelines |-> [i \in DOMAIN rs |-> rs[i].name],
         scores |-> scores,
         categoryOverlap |-> computeCategoryOverlap(rs),
         taxonomyDiff |-> computeTaxonomyDiff(rs),
         radarMetrics |-> computeRadar(scores)]

(***************************************************************************)
(* Inputs of processComparison: two runs with distinct names.              *)
(***************************************************************************)
\* a taxonomy that names its category like SmallTaxonomy, in lower case with a blank
LowerTaxonomy ==
    [present |-> TRUE,
     categories |->
        <<[id |-> Str2("K", "1"), name |-> <<" ", "t", "e", "a", "m">>,
           subcategories |-> <<>>]>>]

\* a taxonomy of four categories
WideTaxonomy ==
    [present |-> TRUE,
     categories |->
        <<[id |-> Str2("C", "1"), name |-> <<"T", "e", "a", "m">>, subcategories |-> <<>>],
          [id |-> Str2("C", "2"), name |-> <<"I", "d", "e", "a">>, subcategories |-> <<>>],
          [id |-> Str2("C", "3"), name |-> <<"C", "a", "r", "e">>, subcategories |-> <<>>],
          [id |-> Str2("C", "4"), name |-> <<"L", "e", "a", "d">>, subcategories |-> <<>>]>>]

CmpTaxonomies == {NoTaxonomy, SmallTaxonomy, LowerTaxonomy, WideTaxonomy}

\* the category and subcategory of a classification of a run
CmpValues ==
    <<[category |-> Str2("C", "1"), subcategory |-> <<" ", "C", "1", "a", " ">>],
      [category |-> <<" ", "C", "1", " ">>, subcategory |-> JsNull],
      [category |-> Str2("K", "1"), subcategory |-> JsNull],
      [category |-> Str2("X", "9"), subcategory |-> <<"z", "z">>],
      [category |-> JsNull, subcategory |-> JsNull]>>

\* a run without phase2 data
NoPhase2 == [present |-> FALSE]

\* phase2 data of a run: one message more than was classified
RunPhase2(q) ==
    [present |-> TRUE,
     classifications |->
         [i \in DOMAIN q |->
             ClassificationOf(0, CmpValues[q[i]].category, CmpValues[q[i]].subcategory)],
     metadata |-> [total_messages |-> Len(q) + 1, total_classified |-> Len(q),
                   batch_size |-> 1],
     candidate_categories |-> CandidateCategories]

FirstRun(taxonomy, phase2data) ==
    [name |-> Str2("P", "1"), taxonomy |-> taxonomy, phase2 |-> phase2data,
     summary |-> [present |-> TRUE, pipeline |-> [total_time_seconds |-> 12]]]

SecondRun(taxonomy, phase2data) ==
    [name |-> Str2("P", "2"), taxonomy |-> taxonomy, phase2 |-> phase2data,
     summary |-> [present |-> FALSE]]

CmpInit ==
    /\ pc = "runs"
    /\ \E t1, t2 \in CmpTaxonomies :
          \E n \in 0..MaxCmpClf : \E q \in [1..n -> DOMAIN CmpValues] :
             \E second \in {NoPhase2, RunPhase2(<<>>)}
                             \cup {RunPhase2(<<v>>) : v \in DOMAIN CmpValues} :
                runs = <<FirstRun(t1, RunPhase2(q)), SecondRun(t2, second)>>
    /\ comparison = None
    /\ raw = None
    /\ titleCount = None
    /\ captureRecapture = None
    /\ recommended = None
    /\ rows = None
    /\ interactions = None
    /\ phase2 = None
    /\ analysis = None
    /\ csvText = None
    /\ records = None
    /\ LaterIdle

\* processComparison(runs)
ProcessComparison ==
    /\ pc = "runs"
    /\ comparison' = processComparison(runs)
    /\ pc' = "compared"
    /\ UNCHANGED laterVars
    /\ UNCHANGED <<raw, titleCount, captureRecapture, recommended, rows, interactions,
                   phase2, analysis, runs, csvText, records>>

CmpNext == ProcessComparison

SpecCmp == CmpInit /\ [][CmpNext]_vars

(***************************************************************************)
(* Claims about processComparison, checked under SpecCmp.                  *)
(***************************************************************************)
\* the runs that computeScore scores from their classifications
C16_Scored == {i \in DOMAIN runs : runs[i].phase2.present
                                   /\ Len(runs[i].phase2.classifications) > 0}

\* C16: for every run with at least one classification, computeScore's malformedPct
\* and biasScore equal the malformedPct and c4BiasScore processPhase2 reports for the
\* same classifications and taxonomy, whether the taxonomy is present, absent, or
\* matched by no classification.
C16_ScoreAgreesWithPhase2 ==
    pc = "compared"
    => \A i \in C16_Scored :
          /\ comparison.scores[i].malformedPct
                = processPhase2(runs[i].phase2, runs[i].taxonomy).malformedPct
          /\ comparison.scores[i].biasScore
                = processPhase2(runs[i].phase2, runs[i].taxonomy).c4BiasScore

\* C17: categories are aligned by name compared case-insensitively after trimming, so
\* no two rows of categoryOverlap carry names that are equal up to case and
\* surrounding blanks.
C17_OverlapAlignedByNormalizedName ==
    pc = "compared"
    => \A i, j \in DOMAIN comparison.categoryOverlap :
          Trim(toLowerCase(comparison.categoryOverlap[i].category))
            = Trim(toLowerCase(comparison.categoryOverlap[j].category))
          => i = j

\* the value a radar row reports for a pipeline
C18_Value(row, name) ==
    comparison.radarMetrics[row].values[
        CHOOSE k \in DOMAIN comparison.radarMetrics[row].values :
            comparison.radarMetrics[row].values[k].key = name].value

C18_DirectAxes ==
    \A i \in DOMAIN comparison.scores :
       /\ comparison.radarMetrics[1].metric = "Success Rate"
       /\ C18_Value(1, comparison.scores[i].pipeline) = comparison.scores[i].successRate
       /\ comparison.radarMetrics[2].metric = "Format Consistency"
       /\ C18_Value(2, comparison.scores[i].pipeline) = comparison.scores[i].formatConsistency
       /\ comparison.radarMetrics[3].metric = "Category Richness"
       /\ C18_Value(3, comparison.scores[i].pipeline) = comparison.scores[i].categoryCount
       /\ comparison.radarMetrics[4].metric = "Discovery"
       /\ C18_Value(4, comparison.scores[i].pipeline) = comparison.scores[i].candidatesFound
       /\ comparison.radarMetrics[5].metric = "Output Quality"
       /\ C18_Value(5, comparison.scores[i].pipeline)
             = 1000 - comparison.scores[i].malformedPct
       /\ comparison.radarMetrics[6].metric = "Balance"

Quote == "\""

\* text[i], undefined past the end of the text
Undefined == "undefined"
CharAt(text, i) == IF i <= Len(text) THEN text[i] ELSE Undefined

\* every row kept, blank or not
HasContentAlways(current) == TRUE

\* current.some((f) => f.trim())
HasContent(current) == \E k \in DOMAIN current : Trim(current[k]) # <<>>

\* every quote of a quoted field closes it: no doubled-quote escape
quotedStepNoEscape(st, ch, next) ==
    IF ch = Quote THEN [st |-> [st EXCEPT !.inQuotes = FALSE], width |-> 1]
    ELSE [st |-> [st EXCEPT !.field = Append(@, ch)], width |-> 1]

\* one step inside a quoted field: the new state and the characters consumed
quotedStep(st, ch, next) ==
    IF ch = Quote /\ next = Quote
    THEN [st |-> [st EXCEPT !.field = Append(@, Quote)], width |-> 2]
    ELSE IF ch = Quote THEN [st |-> [st EXCEPT !.inQuotes = FALSE], width |-> 1]
    ELSE [st |-> [st EXCEPT !.field = Append(@, ch)], width |-> 1]

\* ch === "\n" || (ch === "\r" && next === "\n")
IsLineBreak(ch, next) == ch = "\n" \/ (ch = "\r" /\ next = "\n")

\* a line break that always takes two characters
LineBreakWidthTwo(ch) == 2

\* if (ch === "\r") i++
LineBreakWidth(ch) == IF ch = "\r" THEN 2 ELSE 1

\* one step outside a quoted field
plainStep(st, ch, next) ==
    IF ch = Quote THEN [st |-> [st EXCEPT !.inQuotes = TRUE], width |-> 1]
    ELSE IF ch = ","
    THEN [st |-> [st EXCEPT !.current = Append(@, st.field), !.field = <<>>], width |-> 1]
    ELSE IF IsLineBreak(ch, next)
    THEN LET row == Append(st.current, st.field)
         IN  [st |-> [st EXCEPT !.current = <<>>, !.field = <<>>,
                                !.lines = IF HasContent(row) THEN Append(@, row) ELSE @],
              width |-> LineBreakWidth(ch)]
    ELSE [st |-> [st EXCEPT !.field = Append(@, ch)], width |-> 1]

\* for (let i = 0; i < text.length; i++)
RECURSIVE scanFrom(_, _, _)
scanFrom(text, i, st) ==
    IF i > Len(text) THEN st
    ELSE LET step == IF st.inQuotes
                     THEN quotedStep(st, text[i], CharAt(text, i + 1))
                     ELSE plainStep(st, text[i], CharAt(text, i + 1))
         IN  scanFrom(text, i + step.width, step.st)

\* the scan of the whole text, with the last field and line
scanLines(text) ==
    LET st == scanFrom(text, 1, [lines |-> <<>>, current |-> <<>>, field |-> <<>>,
                                 inQuotes |-> FALSE])
        row == Append(st.current, st.field)
    IN  IF HasContent(row) THEN Append(st.lines, row) ELSE st.lines

\* headers.forEach((h, i) => { obj[h] = (row[i] || "").trim(); }): one entry per header
\* name, a later column of the same name overwrites an earlier one
rowObject(headers, row) ==
    LET keys == SetAdd(headers, <<>>, 1)
        lastOf(h) == CHOOSE i \in DOMAIN headers :
                         headers[i] = h /\ \A k \in DOMAIN headers : headers[k] = h => k <= i
    IN  [k \in DOMAIN keys |->
            [key |-> keys[k],
             value |-> IF lastOf(keys[k]) <= Len(row) THEN Trim(row[lastOf(keys[k])])
                       ELSE <<>>]]

parseCSV(text) ==
    LET lines == scanLines(text)
        headers == [k \in DOMAIN lines[1] |-> Trim(lines[1][k])]
    IN  IF Len(lines) < 2 THEN <<>>
        ELSE [r \in 1..(Len(lines) - 1) |-> rowObject(headers, lines[r + 1])]

(***************************************************************************)
(* Inputs of parseCSV: a header line followed by a short text.             *)
(***************************************************************************)
CsvChars == {"a", ",", Quote, "\n", "\r", " "}

\* header lines with the two line terminators
CsvHeaders == {<<"h", ",", "k", "\n">>, <<"h", "\r", "\n">>}

ParseInit ==
    /\ pc = "text"
    /\ \E header \in CsvHeaders : \E n \in 0..MaxText : \E body \in [1..n -> CsvChars] :
          csvText = header \o body
    /\ records = None
    /\ LaterIdle
    /\ raw = None
    /\ titleCount = None
    /\ captureRecapture = None
    /\ recommended = None
    /\ rows = None
    /\ interactions = None
    /\ phase2 = None
    /\ analysis = None
    /\ runs = None
    /\ comparison = None

\* parseCSV(text)
ParseCSV ==
    /\ pc = "text"
    /\ records' = parseCSV(csvText)
    /\ pc' = "parsed"
    /\ UNCHANGED laterVars
    /\ UNCHANGED <<raw, titleCount, captureRecapture, recommended, rows, interactions,
                   phase2, analysis, runs, comparison, csvText>>

ParseNext == ParseCSV

SpecParse == ParseInit /\ [][ParseNext]_vars

(***************************************************************************)
(* Claims about parseCSV, checked under SpecParse.                         *)
(***************************************************************************)
\* the header line h,k
C19_Header == <<"h", ",", "k", "\n">>

\* the text after the header line
C19_Body == SubSeq(csvText, Len(C19_Header) + 1, Len(csvText))

\* the content of a quoted field written as enc: every quote doubled; a single quote
\* in enc makes the decoding fail
RECURSIVE C19_Decode(_)
C19_Decode(enc) ==
    IF enc = <<>> THEN [ok |-> TRUE, content |-> <<>>]
    ELSE IF enc[1] # Quote
    THEN LET rest == C19_Decode(Tail(enc))
         IN  [ok |-> rest.ok, content |-> <<enc[1]>> \o rest.content]
    ELSE IF Len(enc) >= 2 /\ enc[2] = Quote
    THEN LET rest == C19_Decode(SubSeq(enc, 3, Len(enc)))
         IN  [ok |-> rest.ok, content |-> <<Quote>> \o rest.content]
    ELSE [ok |-> FALSE, content |-> <<>>]

\* the text is the header line h,k followed by exactly one quoted field
C19_OneQuotedField ==
    /\ Len(csvText) >= Len(C19_Header) + 2
    /\ SubSeq(csvText, 1, Len(C19_Header)) = C19_Header
    /\ C19_Body[1] = Quote
    /\ C19_Body[Len(C19_Body)] = Quote
    /\ C19_Decode(SubSeq(C19_Body, 2, Len(C19_Body) - 1)).ok

C19_Content == C19_Decode(SubSeq(C19_Body, 2, Len(C19_Body) - 1)).content

C19_Occurrences(str, ch) == Cardinality({i \in DOMAIN str : str[i] = ch})

\* the value of the record's column h
C19_ValueOfH == records[1][1].value

\* the quoted field is one field of one row: neither a second record nor a value in
\* column k comes out of it
C19_OneFieldOneRow ==
    /\ Len(records) = 1
    /\ Len(records[1]) = 2
    /\ records[1][1].key = <<"h">>
    /\ records[1][2] = [key |-> <<"k">>, value |-> <<>>]

\* C19 as stated: every comma, line break and doubled quote inside the quoted field is
\* part of the field's value (the doubled quote as one quote), and none of them ends the
\* field or the row.
C19_QuotedContentKept ==
    (pc = "parsed" /\ C19_OneQuotedField /\ Trim(C19_Content) # <<>>)
    => /\ C19_OneFieldOneRow
       /\ \A ch \in {",", "\n", "\r", Quote} :
             C19_Occurrences(C19_ValueOfH, ch) = C19_Occurrences(C19_Content, ch)

\* C19 amended: the value is the content of the quoted field, with every doubled quote
\* as one quote and with the white space at its two ends (line breaks included) trimmed
\* off; commas, doubled quotes and inner line breaks are kept, and none of them ends
\* the field or the row.
C19_QuotedContentKeptUpToTrim ==
    (pc = "parsed" /\ C19_OneQuotedField /\ Trim(C19_Content) # <<>>)
    => /\ C19_OneFieldOneRow
       /\ C19_ValueOfH = Trim(C19_Content)
       /\ \A ch \in {",", Quote} :
             C19_Occurrences(C19_ValueOfH, ch) = C19_Occurrences(C19_Content, ch)

\* a quoted field holding a comma and a doubled quote, or a line break between letters
C19_Witness ==
    /\ pc = "parsed"
    /\ C19_OneQuotedField
    /\ \/ C19_Content = <<"a", ",", Quote>>
       \/ C19_Content = <<"a", "\n", "a">>
    /\ C19_ValueOfH = C19_Content

\* the text with every row-terminating \r\n written as \n
RECURSIVE C20_ToLf(_, _, _)
C20_ToLf(text, i, inQuotes) ==
    IF i > Len(text) THEN <<>>
    ELSE IF inQuotes /\ text[i] = Quote /\ CharAt(text, i + 1) = Quote
    THEN <<Quote, Quote>> \o C20_ToLf(text, i + 2, TRUE)
    ELSE IF text[i] = Quote THEN <<Quote>> \o C20_ToLf(text, i + 1, ~inQuotes)
    ELSE IF ~inQuotes /\ text[i] = "\r" /\ CharAt(text, i + 1) = "\n"
    THEN <<"\n">> \o C20_ToLf(text, i + 2, FALSE)
    ELSE <<text[i]>> \o C20_ToLf(text, i + 1, inQuotes)

\* the text with every row-terminating \n written as \r\n
RECURSIVE C20_ToCrLf(_, _, _)
C20_ToCrLf(text, i, inQuotes) ==
    IF i > Len(text) THEN <<>>
    ELSE IF inQuotes /\ text[i] = Quote /\ CharAt(text, i + 1) = Quote
    THEN <<Quote, Quote>> \o C20_ToCrLf(text, i + 2, TRUE)
    ELSE IF text[i] = Quote THEN <<Quote>> \o C20_ToCrLf(text, i + 1, ~inQuotes)
    ELSE IF ~inQuotes /\ text[i] = "\r" /\ CharAt(text, i + 1) = "\n"
    THEN <<"\r", "\n">> \o C20_ToCrLf(text, i + 2, FALSE)
    ELSE IF ~inQuotes /\ text[i] = "\n"
    THEN <<"\r", "\n">> \o C20_ToCrLf(text, i + 1, FALSE)
    ELSE <<text[i]>> \o C20_ToCrLf(text, i + 1, inQuotes)

\* C20: writing every row-terminating \r\n as \n, or every row-terminating \n as \r\n,
\* leaves the sequence of records unchanged.
C20_LineTerminatorsEquivalent ==
    pc = "parsed"
    => /\ parseCSV(C20_ToLf(csvText, 1, FALSE)) = records
       /\ parseCSV(C20_ToCrLf(csvText, 1, FALSE)) = records

\* a text with both terminators and two records
C20_Witness ==
    /\ pc = "parsed"
    /\ Len(records) = 2
    /\ C20_ToLf(csvText, 1, FALSE) # csvText
    /\ C20_ToCrLf(csvText, 1, FALSE) # csvText
    /\ C20_ToLf(csvText, 1, FALSE) # C20_ToCrLf(csvText, 1, FALSE)

(***************************************************************************)
(* Further claims about the population estimator, checked under SpecEst.   *)
(***************************************************************************)
\* a RawData with n1 >= 1, n2 >= 1 and non-empty top-15 lists has been estimated
C30_Estimated ==
    /\ pc = "estimated"
    /\ raw.recipient_title.unique_count >= 1
    /\ raw.nominator_title.unique_count >= 1
    /\ raw.recipient_title.top_15_titles # <<>>
    /\ raw.nominator_title.top_15_titles # <<>>

\* C30: for every RawData with n1 >= 1, n2 >= 1 and non-empty top-15 lists the
\* recommended range is ordered, low <= mid <= high, with mid the rounded Chapman
\* estimate and low, high the rounded 95% bounds.
C30_RecommendedOrdered ==
    C30_Estimated
    => /\ recommended.mid = captureRecapture.chapmanEstimate
       /\ recommended.low = captureRecapture.ci95[1]
       /\ recommended.high = captureRecapture.ci95[2]
       /\ NumGeq(recommended.mid, recommended.low)
       /\ NumGeq(recommended.high, recommended.mid)

\* a range with three different values, its lower bound above both samples
C30_Witness ==
    /\ C30_Estimated
    /\ ~recommended.low.nan /\ ~recommended.mid.nan /\ ~recommended.high.nan
    /\ recommended.low.v > Max2(raw.recipient_title.unique_count,
                                raw.nominator_title.unique_count)
    /\ recommended.low.v < recommended.mid.v
    /\ recommended.mid.v < recommended.high.v

(***************************************************************************)
(* Further claims about processCSVToRawData, checked under SpecCsv.        *)
(***************************************************************************)
\* a title with a character that is not white space
C29_NonBlank(title) == \E i \in DOMAIN title : title[i] \notin WhiteSpace

\* the rows whose two titles are both non-blank
C29_ValidRows ==
    {i \in DOMAIN rows :
        C29_NonBlank(rows[i].nominator_title) /\ C29_NonBlank(rows[i].recipient_title)}

\* the pair dictionary of the rows
C29_AllPairs == pairCountsFrom(rows, 1, <<>>)

\* C29: the counts of all distinct pairs sum to interactions.total_interactions, the
\* number of rows whose two titles are both non-blank; unique_pairs and
\* self_recognition_count are at most total_interactions.
C29_PairCountsSumToTotal ==
    pc = "rawData"
    => /\ interactions.total_interactions = Cardinality(C29_ValidRows)
       /\ SumCounts(C29_AllPairs, 1) = interactions.total_interactions
       /\ interactions.unique_pairs = Len(C29_AllPairs)
       /\ interactions.unique_pairs <= interactions.total_interactions
       /\ interactions.self_recognition_count <= interactions.total_interactions

\* three rows: one with a blank title, two of the same pair, one of them a
\* self-recognition pair written with surrounding blanks
C29_Witness ==
    /\ pc = "rawData"
    /\ Len(rows) = 3
    /\ interactions.total_interactions = 2
    /\ interactions.unique_pairs = 1
    /\ interactions.self_recognition_count = 2
    /\ \E i \in DOMAIN rows : rows[i].nominator_title # rows[i].recipient_title

(***************************************************************************)
(* Further claims about parseCSV, checked under SpecParse.                 *)
(***************************************************************************)
\* the text ends inside a quoted field: a quote opens or closes a field and a doubled
\* quote is two of them, so the field is open at the end iff the quotes are odd in number
C23_EndsInsideQuotedField == C19_Occurrences(csvText, Quote) % 2 = 1

\* C23: a text that ends inside a quoted field produces no records (it is reported as a
\* malformed record), instead of being accepted with the open field as a regular last
\* field.
C23_UnterminatedQuoteRejected ==
    (pc = "parsed" /\ C23_EndsInsideQuotedField) => records = <<>>

(***************************************************************************)
(* processCSV.ts: percentile.  The index idx = (p / 100) * (length - 1) is *)
(* kept exact in hundredths, and so is the interpolated value.             *)
(***************************************************************************)
MaxList == 4       \* longest sorted list drawn for percentile
MaxValue == 3      \* largest list element drawn for percentile

\* the value without interpolation: the lower neighbour
interpolateLower(a, b, weight) == a * 100

\* sorted[lo] + (sorted[hi] - sorted[lo]) * (idx - lo), in hundredths; weight is
\* idx - lo in hundredths
interpolate(a, b, weight) == a * 100 + (b - a) * weight

NumberValue(num) == [kind |-> "number", num |-> num, den |-> 100]
UndefinedValue == [kind |-> "undefined"]
NaNValue == [kind |-> "NaN"]

\* sorted[k] of a JavaScript array, k counted from 0
ElementAt(sorted, k) ==
    IF k >= 0 /\ k < Len(sorted) THEN NumberValue(sorted[k + 1] * 100) ELSE UndefinedValue

\* Math.ceil(num / 100)
CeilHundredths(num) == -((-num) \div 100)

percentile(sorted, p) ==
    LET idx == p * (Len(sorted) - 1)       \* in hundredths
        lo == idx \div 100                 \* Math.floor
        hi == CeilHundredths(idx)
    IN  IF lo = hi THEN ElementAt(sorted, lo)
        ELSE IF ElementAt(sorted, lo).kind = "undefined"
                \/ ElementAt(sorted, hi).kind = "undefined"
        THEN NaNValue
        ELSE NumberValue(interpolate(sorted[lo + 1], sorted[hi + 1], idx - 100 * lo))

(***************************************************************************)
(* Inputs of percentile: ascending lists, and the values of p the code     *)
(* passes together with the two ends 0 and 100.                            *)
(***************************************************************************)
Percentiles == {0, 5, 25, 50, 75, 95, 100}

\* [...].sort((a, b) => a - b)
Ascending(list) == \A i \in 1..(Len(list) - 1) : list[i] <= list[i + 1]

PctInit ==
    /\ pc = "sorted"
    /\ \E n \in 0..MaxList : \E list \in [1..n -> 0..MaxValue] : \E p \in Percentiles :
          /\ Ascending(list)
          /\ pctArgs = [sorted |-> list, p |-> p]
    /\ pctValue = None
    /\ titles = None
    /\ seniorityDist = None
    /\ heatmap = None
    /\ batchScan = None
    /\ file = None
    /\ loader = None
    /\ raw = None
    /\ titleCount = None
    /\ captureRecapture = None
    /\ recommended = None
    /\ rows = None
    /\ interactions = None
    /\ phase2 = None
    /\ analysis = None
    /\ runs = None
    /\ comparison = None
    /\ csvText = None
    /\ records = None

\* percentile(sorted, p)
Percentile ==
    /\ pc = "sorted"
    /\ pctValue' = percentile(pctArgs.sorted, pctArgs.p)
    /\ pc' = "percentile"
    /\ UNCHANGED <<raw, titleCount, captureRecapture, recommended, rows, interactions,
                   phase2, analysis, runs, comparison, csvText, records,
                   pctArgs, titles, seniorityDist, heatmap, batchScan, file, loader>>

PctNext == Percentile

SpecPct == PctInit /\ [][PctNext]_vars

(***************************************************************************)
(* Claims about percentile, checked under SpecPct.                         *)
(***************************************************************************)
\* the median of a non-empty ascending list, doubled: twice the middle element, or the
\* sum of the two middle elements
C24_TwiceMedian(list) ==
    IF Len(list) % 2 = 1 THEN 2 * list[(Len(list) + 1) \div 2]
    ELSE list[Len(list) \div 2] + list[Len(list) \div 2 + 1]

\* C24: for every non-empty ascending list, percentile(list, 0) is the minimum,
\* percentile(list, 100) the maximum and percentile(list, 50) the median (the middle
\* element, or the mean of the two middle elements).
C24_PercentileEnds ==
    (pc = "percentile" /\ pctArgs.sorted # <<>>)
    => LET list == pctArgs.sorted
           p == pctArgs.p
       IN  /\ p \in {0, 50, 100} => pctValue.kind = "number"
           /\ p = 0 => /\ pctValue.num = pctValue.den * list[1]
                       /\ \A i \in DOMAIN list : pctValue.num <= pctValue.den * list[i]
           /\ p = 100 => /\ pctValue.num = pctValue.den * list[Len(list)]
                         /\ \A i \in DOMAIN list : pctValue.num >= pctValue.den * list[i]
           /\ p = 50 => 2 * pctValue.num = pctValue.den * C24_TwiceMedian(list)

\* the median of a list of four whose two middle elements differ: a value between them
C24_Witness ==
    /\ pc = "percentile"
    /\ pctArgs.p = 50
    /\ Len(pctArgs.sorted) = 4
    /\ pctArgs.sorted[2] + 1 = pctArgs.sorted[3]
    /\ pctValue.kind = "number"
    /\ pctValue.num = 100 * pctArgs.sorted[2] + 50

(***************************************************************************)
(* processCSV.ts: extractSeniority and buildSeniorityDist.  A pattern      *)
(* /\bX\b/ matches where X stands in the title with no word character      *)
(* ([A-Za-z0-9_]) next to it on either side; the flag i compares letters   *)
(* without their case.                                                     *)
(***************************************************************************)
MaxWords == 2      \* most words of a title drawn for extractSeniority

\* the patterns with "Senior" tried before "Senior Manager"
SeniorityPatternsSeniorFirst ==
    <<[pattern |-> <<"V", "i", "c", "e", " ", "P", "r", "e", "s", "i", "d", "e", "n", "t">>,
      ignoreCase |-> TRUE, level |-> <<"V", "i", "c", "e", " ", "P", "r", "e", "s", "i", "d", "e", "n", "t">>],
      [pattern |-> <<"V", "P">>,
      ignoreCase |-> FALSE, level |-> <<"V", "P">>],
      [pattern |-> <<"D", "i", "r", "e", "c", "t", "o", "r">>,
      ignoreCase |-> TRUE, level |-> <<"D", "i", "r", "e", "c", "t", "o", "r">>],
      [pattern |-> <<"P", "r", "i", "n", "c", "i", "p", "a", "l">>,
      ignoreCase |-> TRUE, level |-> <<"P", "r", "i", "n", "c", "i", "p", "a", "l">>],
      [pattern |-> <<"S", "e", "n", "i", "o", "r">>,
      ignoreCase |-> TRUE, level |-> <<"S", "e", "n", "i", "o", "r">>],
      [pattern |-> <<"S", "e", "n", "i", "o", "r", " ", "M", "a", "n", "a", "g", "e", "r">>,
      ignoreCase |-> TRUE, level |-> <<"M", "a", "n", "a", "g", "e", "r">>],
      [pattern |-> <<"L", "e", "a", "d">>,
      ignoreCase |-> TRUE, level |-> <<"L", "e", "a", "d">>],
      [pattern |-> <<"M", "a", "n", "a", "g", "e", "r">>,
      ignoreCase |-> TRUE, level |-> <<"M", "a", "n", "a", "g", "e", "r">>],
      [pattern |-> <<"A", "s", "s", "o", "c", "i", "a", "t", "e">>,
      ignoreCase |-> TRUE, level |-> <<"A", "s", "s", "o", "c", "i", "a", "t", "e">>],
      [pattern |-> <<"J", "u", "n", "i", "o", "r">>,
      ignoreCase |-> TRUE, level |-> <<"J", "u", "n", "i", "o", "r">>]>>

\* SENIORITY_PATTERNS, in the order extractSeniority tries them
SENIORITY_PATTERNS ==
    <<[pattern |-> <<"V", "i", "c", "e", " ", "P", "r", "e", "s", "i", "d", "e", "n", "t">>,
      ignoreCase |-> TRUE, level |-> <<"V", "i", "c", "e", " ", "P", "r", "e", "s", "i", "d", "e", "n", "t">>],
      [pattern |-> <<"V", "P">>,
      ignoreCase |-> FALSE, level |-> <<"V", "P">>],
      [pattern |-> <<"D", "i", "r", "e", "c", "t", "o", "r">>,
      ignoreCase |-> TRUE, level |-> <<"D", "i", "r", "e", "c", "t", "o", "r">>],
      [pattern |-> <<"P", "r", "i", "n", "c", "i", "p", "a", "l">>,
      ignoreCase |-> TRUE, level |-> <<"P", "r", "i", "n", "c", "i", "p", "a", "l">>],
      [pattern |-> <<"S", "e", "n", "i", "o", "r", " ", "M", "a", "n", "a", "g", "e", "r">>,
      ignoreCase |-> TRUE, level |-> <<"M", "a", "n", "a", "g", "e", "r">>],
      [pattern |-> <<"S", "e", "n", "i", "o", "r">>,
      ignoreCase |-> TRUE, level |-> <<"S", "e", "n", "i", "o", "r">>],
      [pattern |-> <<"L", "e", "a", "d">>,
      ignoreCase |-> TRUE, level |-> <<"L", "e", "a", "d">>],
      [pattern |-> <<"M", "a", "n", "a", "g", "e", "r">>,
      ignoreCase |-> TRUE, level |-> <<"M", "a", "n", "a", "g", "e", "r">>],
      [pattern |-> <<"A", "s", "s", "o", "c", "i", "a", "t", "e">>,
      ignoreCase |-> TRUE, level |-> <<"A", "s", "s", "o", "c", "i", "a", "t", "e">>],
      [pattern |-> <<"J", "u", "n", "i", "o", "r">>,
      ignoreCase |-> TRUE, level |-> <<"J", "u", "n", "i", "o", "r">>]>>

\* \w
IsWordChar(ch) == IsUpper(ch) \/ IsLower(ch) \/ IsDigit(ch) \/ ch = "_"

\* one character of the title against one of the pattern
CharMatches(ch, patternChar, ignoreCase) ==
    IF ignoreCase THEN LowerChar(ch) = LowerChar(patternChar) ELSE ch = patternChar

\* the pattern stands at position i of the title, between two word boundaries
MatchesAt(title, rule, i) ==
    LET last == i + Len(rule.pattern) - 1
    IN  /\ last <= Len(title)
        /\ \A k \in DOMAIN rule.pattern :
               CharMatches(title[i + k - 1], rule.pattern[k], rule.ignoreCase)
        /\ (i = 1 \/ ~IsWordChar(title[i - 1]))
        /\ (last = Len(title) \/ ~IsWordChar(title[last + 1]))

\* pattern.test(title)
PatternTest(title, rule) == \E i \in DOMAIN title : MatchesAt(title, rule, i)

\* for (const [pattern, level] of SENIORITY_PATTERNS) if (pattern.test(title)) return level
RECURSIVE extractSeniorityFrom(_, _)
extractSeniorityFrom(title, k) ==
    IF k > Len(SENIORITY_PATTERNS) THEN JsNull
    ELSE IF PatternTest(title, SENIORITY_PATTERNS[k]) THEN SENIORITY_PATTERNS[k].level
    ELSE extractSeniorityFrom(title, k + 1)

extractSeniority(title) == extractSeniorityFrom(title, 1)

\* for (const t of titles) { level = extractSeniority(t); if (level) dist[level]++ }
RECURSIVE buildSeniorityDistFrom(_, _, _)
buildSeniorityDistFrom(ts, i, dist) ==
    IF i > Len(ts) THEN dist
    ELSE LET level == extractSeniority(ts[i])
             at == KeyIndex(dist, level)
         IN  IF level = JsNull THEN buildSeniorityDistFrom(ts, i + 1, dist)
             ELSE IF at = 0
             THEN buildSeniorityDistFrom(ts, i + 1, Append(dist, [key |-> level, count |-> 1]))
             ELSE buildSeniorityDistFrom(ts, i + 1,
                      [dist EXCEPT ![at].count = dist[at].count + 1])

buildSeniorityDist(ts) == buildSeniorityDistFrom(ts, 1, <<>>)

(***************************************************************************)
(* Inputs of buildSeniorityDist: titles of words separated by one blank.   *)
(***************************************************************************)
TitleWords ==
    {<<"V", "i", "c", "e">>,
     <<"P", "r", "e", "s", "i", "d", "e", "n", "t">>,
     <<"V", "P">>,
     <<"v", "p">>,
     <<"D", "i", "r", "e", "c", "t", "o", "r">>,
     <<"P", "r", "i", "n", "c", "i", "p", "a", "l">>,
     <<"S", "e", "n", "i", "o", "r">>,
     <<"s", "e", "n", "i", "o", "r">>,
     <<"M", "a", "n", "a", "g", "e", "r">>,
     <<"M", "a", "n", "a", "g", "e", "r", "s">>,
     <<"L", "e", "a", "d">>,
     <<"A", "s", "s", "o", "c", "i", "a", "t", "e">>,
     <<"J", "u", "n", "i", "o", "r">>}

\* the words of a title joined by single blanks
RECURSIVE JoinWords(_)
JoinWords(ws) ==
    IF ws = <<>> THEN <<>>
    ELSE IF Len(ws) = 1 THEN ws[1]
    ELSE ws[1] \o <<" ">> \o JoinWords(Tail(ws))

\* the titles that follow the first one of a list
LaterTitles ==
    {<<>>,
     <<<<"S", "e", "n", "i", "o", "r", " ", "M", "a", "n", "a", "g", "e", "r">>>>,
     <<<<"V", "P", " ", "o", "f", " ", "S", "a", "l", "e", "s">>,
       <<"S", "t", "a", "f", "f", " ", "E", "n", "g", "i", "n", "e", "e", "r">>>>}

SeniorityInit ==
    /\ pc = "titles"
    /\ \/ titles = <<>>
       \/ \E n \in 1..MaxWords : \E ws \in [1..n -> TitleWords] :
          \E later \in LaterTitles :
              titles = <<JoinWords(ws)>> \o later
    /\ seniorityDist = None
    /\ pctArgs = None
    /\ pctValue = None
    /\ heatmap = None
    /\ batchScan = None
    /\ file = None
    /\ loader = None
    /\ raw = None
    /\ titleCount = None
    /\ captureRecapture = None
    /\ recommended = None
    /\ rows = None
    /\ interactions = None
    /\ phase2 = None
    /\ analysis = None
    /\ runs = None
    /\ comparison = None
    /\ csvText = None
    /\ records = None

\* buildSeniorityDist(titles)
BuildSeniorityDist ==
    /\ pc = "titles"
    /\ seniorityDist' = buildSeniorityDist(titles)
    /\ pc' = "seniority"
    /\ UNCHANGED <<raw, titleCount, captureRecapture, recommended, rows, interactions,
                   phase2, analysis, runs, comparison, csvText, records,
                   pctArgs, pctValue, titles, heatmap, batchScan, file, loader>>

SeniorityNext == BuildSeniorityDist

SpecSeniority == SeniorityInit /\ [][SeniorityNext]_vars

(***************************************************************************)
(* Claims about extractSeniority, checked under SpecSeniority.             *)
(***************************************************************************)
\* the words of a title: the runs of characters between blanks
RECURSIVE C25_Words(_, _, _)
C25_Words(title, i, word) ==
    IF i > Len(title) THEN (IF word = <<>> THEN <<>> ELSE <<word>>)
    ELSE IF title[i] = " "
    THEN (IF word = <<>> THEN <<>> ELSE <<word>>) \o C25_Words(title, i + 1, <<>>)
    ELSE C25_Words(title, i + 1, Append(word, title[i]))

\* the rules as the claim lists them: the words to find (in small letters where the
\* case of the letters does not count) and the label
C25_Rules ==
    <<[words |-> <<<<"v", "i", "c", "e">>, <<"p", "r", "e", "s", "i", "d", "e", "n", "t">>>>, exact |-> FALSE, label |-> <<"V", "i", "c", "e", " ", "P", "r", "e", "s", "i", "d", "e", "n", "t">>],
      [words |-> <<<<"V", "P">>>>, exact |-> TRUE, label |-> <<"V", "P">>],
      [words |-> <<<<"d", "i", "r", "e", "c", "t", "o", "r">>>>, exact |-> FALSE, label |-> <<"D", "i", "r", "e", "c", "t", "o", "r">>],
      [words |-> <<<<"p", "r", "i", "n", "c", "i", "p", "a", "l">>>>, exact |-> FALSE, label |-> <<"P", "r", "i", "n", "c", "i", "p", "a", "l">>],
      [words |-> <<<<"s", "e", "n", "i", "o", "r">>, <<"m", "a", "n", "a", "g", "e", "r">>>>, exact |-> FALSE, label |-> <<"M", "a", "n", "a", "g", "e", "r">>],
      [words |-> <<<<"s", "e", "n", "i", "o", "r">>>>, exact |-> FALSE, label |-> <<"S", "e", "n", "i", "o", "r">>],
      [words |-> <<<<"l", "e", "a", "d">>>>, exact |-> FALSE, label |-> <<"L", "e", "a", "d">>],
      [words |-> <<<<"m", "a", "n", "a", "g", "e", "r">>>>, exact |-> FALSE, label |-> <<"M", "a", "n", "a", "g", "e", "r">>],
      [words |-> <<<<"a", "s", "s", "o", "c", "i", "a", "t", "e">>>>, exact |-> FALSE, label |-> <<"A", "s", "s", "o", "c", "i", "a", "t", "e">>],
      [words |-> <<<<"j", "u", "n", "i", "o", "r">>>>, exact |-> FALSE, label |-> <<"J", "u", "n", "i", "o", "r">>]>>

\* the words of the rule stand in the title, one after the other; ws are the words of
\* the title and lws the same words in small letters
C25_RuleMatches(ws, lws, rule) ==
    \E i \in DOMAIN ws :
        /\ i + Len(rule.words) - 1 <= Len(ws)
        /\ \A k \in DOMAIN rule.words :
               IF rule.exact THEN ws[i + k - 1] = rule.words[k]
               ELSE lws[i + k - 1] = rule.words[k]

\* the label of the first rule that matches, JsNull when none does
C25_Level(title) ==
    LET ws == C25_Words(title, 1, <<>>)
        lws == [i \in DOMAIN ws |-> toLowerCase(ws[i])]
        matching == {k \in DOMAIN C25_Rules : C25_RuleMatches(ws, lws, C25_Rules[k])}
    IN  IF matching = {} THEN JsNull
        ELSE C25_Rules[CHOOSE k \in matching : \A j \in matching : k <= j].label

C25_Labels == {C25_Rules[k].label : k \in DOMAIN C25_Rules}

\* C25: a title gets the label of the first rule it matches, in the order Vice
\* President, VP, Director, Principal, Senior Manager (label Manager), Senior, Lead,
\* Manager, Associate, Junior; a title matching no rule gets no level and adds
\* nothing to the seniority distribution.
C25_FirstMatchingRule ==
    pc = "seniority"
    => LET levels == [i \in DOMAIN titles |-> C25_Level(titles[i])]
       IN  /\ \A e \in DOMAIN seniorityDist : seniorityDist[e].key \in C25_Labels
           /\ \A e, f \in DOMAIN seniorityDist :
                  seniorityDist[e].key = seniorityDist[f].key => e = f
           /\ \A label \in C25_Labels :
                  LET with == {i \in DOMAIN titles : levels[i] = label}
                  IN  IF with = {}
                      THEN \A e \in DOMAIN seniorityDist : seniorityDist[e].key # label
                      ELSE \E e \in DOMAIN seniorityDist :
                               seniorityDist[e] = [key |-> label, count |-> Cardinality(with)]

\* "Manager Senior" is a Senior (no Senior Manager in it), the "Senior Manager" after
\* it a Manager
C25_Witness ==
    /\ pc = "seniority"
    /\ titles = <<<<"M", "a", "n", "a", "g", "e", "r", " ", "S", "e", "n", "i", "o", "r">>,
                 <<"S", "e", "n", "i", "o", "r", " ", "M", "a", "n", "a", "g", "e", "r">>>>
    /\ seniorityDist = <<[key |-> <<"S", "e", "n", "i", "o", "r">>, count |-> 1],
                        [key |-> <<"M", "a", "n", "a", "g", "e", "r">>, count |-> 1]>>

(***************************************************************************)
(* extractDept.ts and processData.ts: buildHeatmap.  The patterns of       *)
(* DEPT_KEYWORDS are alternatives of plain words with the flag i: a        *)
(* pattern tests true when one of its words stands somewhere in the title, *)
(* letters compared without their case (the words are kept in small        *)
(* letters).  "customer (service|success)" and "product (manager|designer)"*)
(* are written out as their two alternatives.                              *)
(***************************************************************************)
MaxPairs == 2      \* longest top_10_pairs list drawn for buildHeatmap

DEPT_KEYWORDS ==
    <<[keywords |->
          <<<<"e", "n", "g", "i", "n", "e", "e", "r">>,
            <<"s", "o", "f", "t", "w", "a", "r", "e">>,
            <<"q", "a">>,
            <<"h", "e", "l", "p", "d", "e", "s", "k">>,
            <<"t", "e", "c", "h", "f", "l", "o", "w">>>>,
       dept |-> <<"E", "n", "g", "i", "n", "e", "e", "r", "i", "n", "g">>],
      [keywords |->
          <<<<"c", "r", "e", "a", "t", "i", "v", "e">>,
            <<"c", "o", "p", "y", "w", "r", "i", "t", "e">>,
            <<"d", "e", "s", "i", "g", "n">>,
            <<"p", "r", "e", "s", "e", "n", "t", "a", "t", "i", "o", "n">>,
            <<"a", "r", "t", " ", "d", "i", "r", "e", "c", "t", "o", "r">>>>,
       dept |-> <<"C", "r", "e", "a", "t", "i", "v", "e", " ", "&", " ", "D", "e", "s", "i", "g", "n">>],
      [keywords |->
          <<<<"m", "a", "r", "k", "e", "t", "i", "n", "g">>,
            <<"d", "e", "m", "a", "n", "d", " ", "g", "e", "n">>,
            <<"b", "r", "a", "n", "d">>,
            <<"p", "a", "i", "d", " ", "m", "e", "d", "i", "a">>,
            <<"a", "b", "m">>,
            <<"c", "o", "n", "t", "e", "n", "t", " ", "s", "t", "r", "a", "t">>>>,
       dept |-> <<"M", "a", "r", "k", "e", "t", "i", "n", "g">>],
      [keywords |->
          <<<<"e", "v", "e", "n", "t">>>>,
       dept |-> <<"E", "v", "e", "n", "t", "s">>],
      [keywords |->
          <<<<"c", "u", "s", "t", "o", "m", "e", "r", " ", "s", "e", "r", "v", "i", "c", "e">>,
            <<"c", "u", "s", "t", "o", "m", "e", "r", " ", "s", "u", "c", "c", "e", "s", "s">>,
            <<"c", "u", "s", "t", "o", "m", "e", "r", " ", "i", "n", "s", "i", "g", "h", "t">>>>,
       dept |-> <<"C", "u", "s", "t", "o", "m", "e", "r", " ", "S", "e", "r", "v", "i", "c", "e">>],
      [keywords |->
          <<<<"f", "i", "n", "a", "n", "c", "e">>,
            <<"a", "c", "c", "o", "u", "n", "t", "a", "n", "t">>,
            <<"a", "c", "c", "o", "u", "n", "t", "s", " ", "p", "a", "y", "a", "b", "l", "e">>,
            <<"p", "a", "y", "r", "o", "l", "l">>>>,
       dept |-> <<"F", "i", "n", "a", "n", "c", "e">>],
      [keywords |->
          <<<<"s", "a", "l", "e">>,
            <<"s", "t", "o", "r", "e", " ", "e", "x", "p", "e", "r", "i", "e", "n", "c", "e">>,
            <<"b", "u", "y", "e", "r">>>>,
       dept |-> <<"S", "a", "l", "e", "s", " ", "&", " ", "P", "r", "o", "c", "u", "r", "e", "m", "e", "n", "t">>],
      [keywords |->
          <<<<"p", "r", "o", "d", "u", "c", "t", " ", "m", "a", "n", "a", "g", "e", "r">>,
            <<"p", "r", "o", "d", "u", "c", "t", " ", "d", "e", "s", "i", "g", "n", "e", "r">>>>,
       dept |-> <<"P", "r", "o", "d", "u", "c", "t">>],
      [keywords |->
          <<<<"l", "i", "n", "g", "u", "i", "s", "t", "i", "c">>,
            <<"w", "h", "i", "q">>,
            <<"t", "h", "o", "u", "g", "h", "t", " ", "l", "e", "a", "d", "e", "r", "s", "h", "i", "p">>>>,
       dept |-> <<"C", "o", "n", "t", "e", "n", "t", " ", "&", " ", "L", "i", "n", "g", "u", "i", "s", "t", "i", "c", "s">>],
      [keywords |->
          <<<<"c", "h", "i", "e", "f">>,
            <<"v", "p">>,
            <<"v", "i", "c", "e", " ", "p", "r", "e", "s", "i", "d", "e", "n", "t">>,
            <<"c", "h", "i", "e", "f", " ", "o", "f", " ", "s", "t", "a", "f", "f">>>>,
       dept |-> <<"E", "x", "e", "c", "u", "t", "i", "v", "e">>],
      [keywords |->
          <<<<"h", "r">>,
            <<"p", "e", "o", "p", "l", "e">>,
            <<"t", "a", "l", "e", "n", "t">>>>,
       dept |-> <<"H", "R">>]>>

Other == <<"O", "t", "h", "e", "r">>

\* the keyword stands somewhere in the title (both in small letters)
Contains(lower, keyword) ==
    \E i \in 1..(Len(lower) - Len(keyword) + 1) :
        SubSeq(lower, i, i + Len(keyword) - 1) = keyword

\* for (const { pattern, dept } of DEPT_KEYWORDS) if (pattern.test(title)) return dept
RECURSIVE extractDeptFrom(_, _)
extractDeptFrom(lower, k) ==
    IF k > Len(DEPT_KEYWORDS) THEN Other
    ELSE IF \E a \in DOMAIN DEPT_KEYWORDS[k].keywords :
                Contains(lower, DEPT_KEYWORDS[k].keywords[a])
    THEN DEPT_KEYWORDS[k].dept
    ELSE extractDeptFrom(lower, k + 1)

\* if (!title) return "Other"
extractDept(title) ==
    IF title = <<>> \/ title = JsNull THEN Other ELSE extractDeptFrom(toLowerCase(title), 1)

\* the characters of the department names in the order of their UTF-16 code units
CodeUnits == <<" ", "&">> \o UpperLetters \o LowerLetters
CodeOf(ch) == CHOOSE i \in DOMAIN CodeUnits : CodeUnits[i] = ch

\* a < b for strings: the default order of Array.prototype.sort
RECURSIVE StringLess(_, _)
StringLess(a, b) ==
    IF b = <<>> THEN FALSE
    ELSE IF a = <<>> THEN TRUE
    ELSE IF a[1] = b[1] THEN StringLess(Tail(a), Tail(b))
    ELSE CodeOf(a[1]) < CodeOf(b[1])

RECURSIVE InsertString(_, _)
InsertString(sorted, str) ==
    IF sorted = <<>> THEN <<str>>
    ELSE IF StringLess(str, Head(sorted)) THEN <<str>> \o sorted
    ELSE <<Head(sorted)>> \o InsertString(Tail(sorted), str)

\* Array.prototype.sort() of strings
RECURSIVE SortStrings(_, _, _)
SortStrings(strs, i, sorted) ==
    IF i > Len(strs) THEN sorted
    ELSE SortStrings(strs, i + 1, InsertString(sorted, strs[i]))

\* the flow of a cell replaced by every new count instead of added to
flowOverwritten(old, count) == count

\* (flows[key] || 0) + count
flowAdded(old, count) == old + count

\* the forEach that fills flows; the key `${from}|${to}` is kept as its two parts
RECURSIVE flowsFrom(_, _, _, _, _)
flowsFrom(pairs, from, to, i, flows) ==
    IF i > Len(pairs) THEN flows
    ELSE LET key == [from |-> from[i], to |-> to[i]]
             at == KeyIndex(flows, key)
         IN  IF at = 0
             THEN flowsFrom(pairs, from, to, i + 1,
                      Append(flows, [key |-> key, count |-> flowAdded(0, pairs[i].count)]))
             ELSE flowsFrom(pairs, from, to, i + 1,
                      [flows EXCEPT ![at].count = flowAdded(flows[at].count, pairs[i].count)])

\* flows[`${from}|${to}`] || 0
FlowOf(flows, from, to) ==
    LET at == KeyIndex(flows, [from |-> from, to |-> to])
    IN  IF at = 0 THEN 0 ELSE flows[at].count

buildHeatmap(r) ==
    LET pairs == r.interactions.top_10_pairs
        from == [i \in DOMAIN pairs |-> extractDept(pairs[i].nominator)]
        to == [i \in DOMAIN pairs |-> extractDept(pairs[i].recipient)]
        flows == flowsFrom(pairs, from, to, 1, <<>>)
        depts == SortStrings(SetAdd(from \o to, <<>>, 1), 1, <<>>)
    IN  [labels |-> depts,
         matrix |-> [i \in DOMAIN depts |->
                        [j \in DOMAIN depts |-> FlowOf(flows, depts[i], depts[j])]]]

(***************************************************************************)
(* Inputs of buildHeatmap: the top pairs of a RawData, distinct pairs of   *)
(* titles with their counts in descending order.                           *)
(***************************************************************************)
HeatmapTitles ==
    {<<"Q", "A", " ", "L", "e", "a", "d">>,
     <<"S", "a", "l", "e", "s", " ", "E", "n", "g", "i", "n", "e", "e", "r">>,
     <<"H", "R", " ", "B", "u", "y", "e", "r">>,
     <<"C", "h", "e", "f">>}

\* the counts of the pairs
PairCounts == {1, 3}

HeatmapPairs(n) ==
    {ps \in [1..n -> [nominator : HeatmapTitles, recipient : HeatmapTitles, count : PairCounts]] :
        /\ \A i, j \in 1..n :
               (ps[i].nominator = ps[j].nominator /\ ps[i].recipient = ps[j].recipient)
               => i = j
        /\ \A i \in 1..(n - 1) : ps[i].count >= ps[i + 1].count}

HeatmapInit ==
    /\ pc = "rawHeatmap"
    /\ \E n \in 0..MaxPairs : \E ps \in HeatmapPairs(n) :
          raw = [interactions |-> [top_10_pairs |-> ps]]
    /\ heatmap = None
    /\ pctArgs = None
    /\ pctValue = None
    /\ titles = None
    /\ seniorityDist = None
    /\ batchScan = None
    /\ file = None
    /\ loader = None
    /\ titleCount = None
    /\ captureRecapture = None
    /\ recommended = None
    /\ rows = None
    /\ interactions = None
    /\ phase2 = None
    /\ analysis = None
    /\ runs = None
    /\ comparison = None
    /\ csvText = None
    /\ records = None

\* buildHeatmap(raw)
BuildHeatmap ==
    /\ pc = "rawHeatmap"
    /\ heatmap' = buildHeatmap(raw)
    /\ pc' = "heatmap"
    /\ UNCHANGED <<raw, titleCount, captureRecapture, recommended, rows, interactions,
                   phase2, analysis, runs, comparison, csvText, records,
                   pctArgs, pctValue, titles, seniorityDist, batchScan, file, loader>>

HeatmapNext == BuildHeatmap

SpecHeatmap == HeatmapInit /\ [][HeatmapNext]_vars

(***************************************************************************)
(* Claims about buildHeatmap, checked under SpecHeatmap.                   *)
(***************************************************************************)
C26_Engineering == <<"E", "n", "g", "i", "n", "e", "e", "r", "i", "n", "g">>
C26_Sales == <<"S", "a", "l", "e", "s", " ", "&", " ", "P", "r", "o", "c", "u", "r", "e", "m", "e", "n", "t">>

\* the departments of the four titles: QA and engineer are Engineering keywords, the
\* Sales & Procurement rule (buyer) comes before the HR rule, Chef matches no rule
C26_DeptOf(title) ==
    IF title = <<"Q", "A", " ", "L", "e", "a", "d">> THEN C26_Engineering
    ELSE IF title = <<"S", "a", "l", "e", "s", " ", "E", "n", "g", "i", "n", "e", "e", "r">> THEN C26_Engineering
    ELSE IF title = <<"H", "R", " ", "B", "u", "y", "e", "r">> THEN C26_Sales
    ELSE Other

\* the three departments in dictionary order
C26_Rank(dept) == IF dept = C26_Engineering THEN 1 ELSE IF dept = Other THEN 2 ELSE 3

C26_Pairs == raw.interactions.top_10_pairs

RECURSIVE C26_Sum(_)
C26_Sum(S) ==
    IF S = {} THEN 0
    ELSE LET i == CHOOSE i \in S : TRUE
         IN  C26_Pairs[i].count + C26_Sum(S \ {i})

RECURSIVE C26_RowSum(_, _)
C26_RowSum(row, j) == IF j > Len(row) THEN 0 ELSE row[j] + C26_RowSum(row, j + 1)

RECURSIVE C26_MatrixSum(_, _)
C26_MatrixSum(matrix, i) ==
    IF i > Len(matrix) THEN 0 ELSE C26_RowSum(matrix[i], 1) + C26_MatrixSum(matrix, i + 1)

\* C26: the labels are the sorted distinct departments of the nominators and recipients
\* of the top pairs; the matrix is square over the labels, cell (i, j) is the sum of the
\* counts of the pairs from department labels[i] to department labels[j], and the cells
\* sum to the total count of the top pairs.
C26_HeatmapCells ==
    pc = "heatmap"
    => LET labels == heatmap.labels
           matrix == heatmap.matrix
       IN  /\ {labels[i] : i \in DOMAIN labels}
                  = {C26_DeptOf(C26_Pairs[i].nominator) : i \in DOMAIN C26_Pairs}
                    \cup {C26_DeptOf(C26_Pairs[i].recipient) : i \in DOMAIN C26_Pairs}
           /\ \A i \in 1..(Len(labels) - 1) : C26_Rank(labels[i]) < C26_Rank(labels[i + 1])
           /\ Len(matrix) = Len(labels)
           /\ \A i \in DOMAIN matrix : Len(matrix[i]) = Len(labels)
           /\ \A i, j \in DOMAIN labels :
                  matrix[i][j] = C26_Sum({k \in DOMAIN C26_Pairs :
                                     /\ C26_DeptOf(C26_Pairs[k].nominator) = labels[i]
                                     /\ C26_DeptOf(C26_Pairs[k].recipient) = labels[j]})
           /\ C26_MatrixSum(matrix, 1) = C26_Sum(DOMAIN C26_Pairs)

\* two pairs of different titles flow from Engineering to Sales & Procurement and share
\* one cell of a 2 x 2 matrix
C26_Witness ==
    /\ pc = "heatmap"
    /\ Len(C26_Pairs) = 2
    /\ C26_Pairs[1].nominator # C26_Pairs[2].nominator
    /\ C26_Pairs[1].count = 3
    /\ C26_Pairs[2].count = 1
    /\ heatmap.labels = <<C26_Engineering, C26_Sales>>
    /\ heatmap.matrix = <<<<0, 4>>, <<0, 0>>>>

(***************************************************************************)
(* processPhase2.ts: the batch-health loop, one iteration at a time.  The  *)
(* loop bound Math.ceil(total_messages / batch_size) is a JavaScript       *)
(* number: finite for a batch size of at least 1, Infinity for x / 0 with  *)
(* x > 0 and NaN for 0 / 0.                                                *)
(***************************************************************************)
MaxSteps == 6      \* most iterations of the batch loop that are followed

FiniteNumber(v) == [kind |-> "number", v |-> v]
InfinityNumber == [kind |-> "Infinity", v |-> 0]
NaNNumber == [kind |-> "NaN", v |-> 0]

\* Math.ceil(metadata.total_messages / metadata.batch_size)
totalBatchesNumber(metadata) ==
    IF metadata.batch_size = 0
    THEN (IF metadata.total_messages = 0 THEN NaNNumber ELSE InfinityNumber)
    ELSE FiniteNumber(totalBatches(metadata))

\* i < totalBatches
LessThanNumber(i, number) ==
    IF number.kind = "NaN" THEN FALSE
    ELSE IF number.kind = "Infinity" THEN TRUE
    ELSE i < number.v

BatchInit ==
    /\ pc = "batchMap"
    /\ \E n \in 0..MaxBatchClf :
          \E q \in [1..n -> (0..MaxBatch) \X {Str2("C", "1"), JsNull}] :
             \E total_messages \in 0..MaxMessages : \E batch_size \in 0..MaxBatchSize :
                phase2 = BatchInputs(q, total_messages, batch_size)
    /\ batchScan = None
    /\ analysis = None
    /\ pctArgs = None
    /\ pctValue = None
    /\ titles = None
    /\ seniorityDist = None
    /\ heatmap = None
    /\ file = None
    /\ loader = None
    /\ raw = None
    /\ titleCount = None
    /\ captureRecapture = None
    /\ recommended = None
    /\ rows = None
    /\ interactions = None
    /\ runs = None
    /\ comparison = None
    /\ csvText = None
    /\ records = None

\* const totalBatches = ...; const batchHealth = []; const missingBatches = []; let i = 0
EnterBatchLoop ==
    /\ pc = "batchMap"
    /\ batchScan' = [i |-> 0,
                     totalBatches |-> totalBatchesNumber(phase2.data.metadata),
                     batchHealth |-> <<>>,
                     missingBatches |-> <<>>]
    /\ pc' = "batchLoop"
    /\ UNCHANGED <<raw, titleCount, captureRecapture, recommended, rows, interactions,
                   phase2, analysis, runs, comparison, csvText, records,
                   pctArgs, pctValue, titles, seniorityDist, heatmap, file, loader>>

\* one iteration: i < totalBatches, the body, i++; followed for MaxSteps iterations
BatchLoopStep ==
    /\ pc = "batchLoop"
    /\ LessThanNumber(batchScan.i, batchScan.totalBatches)
    /\ batchScan.i < MaxSteps
    /\ LET clf == phase2.data.classifications
           i == batchScan.i
           validIds == IF phase2.taxonomy.present THEN extractValidIds(phase2.taxonomy)
                       ELSE DefaultValidIds
       IN  batchScan' =
               IF batchClassified(clf, i) > 0
               THEN [batchScan EXCEPT
                        !.i = i + 1,
                        !.batchHealth =
                            Append(@, [batch |-> i,
                                       classified |-> batchClassified(clf, i),
                                       malformed |->
                                           batchMalformed(clf, i, validIds.categories),
                                       expected |-> phase2.data.metadata.batch_size])]
               ELSE [batchScan EXCEPT !.i = i + 1, !.missingBatches = Append(@, i)]
    /\ UNCHANGED <<pc, raw, titleCount, captureRecapture, recommended, rows, interactions,
                   phase2, analysis, runs, comparison, csvText, records,
                   pctArgs, pctValue, titles, seniorityDist, heatmap, file, loader>>

\* i < totalBatches is false: the loop is left and the theme analysis starts
LeaveBatchLoop ==
    /\ pc = "batchLoop"
    /\ ~LessThanNumber(batchScan.i, batchScan.totalBatches)
    /\ pc' = "themes"
    /\ UNCHANGED <<raw, titleCount, captureRecapture, recommended, rows, interactions,
                   phase2, analysis, runs, comparison, csvText, records, batchScan,
                   pctArgs, pctValue, titles, seniorityDist, heatmap, file, loader>>

BatchNext == EnterBatchLoop \/ BatchLoopStep \/ LeaveBatchLoop

SpecBatch == BatchInit /\ [][BatchNext]_vars

(***************************************************************************)
(* Claims about the batch loop, checked under SpecBatch.                   *)
(***************************************************************************)
\* C27: the batch loop of processPhase2 ends for every metadata value, also for
\* batch_size = 0 with total_messages > 0.  A loop that ends visits at most one batch
\* per declared message, so its index never passes total_messages.
C27_LoopWithinMessages ==
    pc \in {"batchLoop", "themes"}
    => batchScan.i <= phase2.data.metadata.total_messages

(***************************************************************************)
(* SeniorityChart.tsx: DataLoader.  The loader holds status and error; a   *)
(* FileReader started by handleFile ends with one load or one error event  *)
(* (reader: "none", "reading", "load", "error").                           *)
(* onLoad is the callback of the parent, recorded with every payload it    *)
(* was called with.                                                        *)
(***************************************************************************)
MaxLines == 3      \* most lines of an uploaded text besides its header line

REQUIRED_COLUMNS ==
    <<<<"m", "e", "s", "s", "a", "g", "e">>,
      <<"a", "w", "a", "r", "d", "_", "t", "i", "t", "l", "e">>,
      <<"r", "e", "c", "i", "p", "i", "e", "n", "t", "_", "t", "i", "t", "l", "e">>,
      <<"n", "o", "m", "i", "n", "a", "t", "o", "r", "_", "t", "i", "t", "l", "e">>>>

CsvSuffix == <<".", "c", "s", "v">>
PleaseUpload ==
    <<"P", "l", "e", "a", "s", "e", " ", "u", "p", "l", "o", "a", "d", " ", "a", " ",
      ".", "c", "s", "v", " ", "f", "i", "l", "e">>
AppearsEmpty ==
    <<"C", "S", "V", " ", "a", "p", "p", "e", "a", "r", "s", " ", "e", "m", "p", "t",
      "y", " ", "o", "r", " ", "c", "o", "u", "l", "d", " ", "n", "o", "t", " ", "b",
      "e", " ", "p", "a", "r", "s", "e", "d">>
FailedToRead ==
    <<"F", "a", "i", "l", "e", "d", " ", "t", "o", " ", "r", "e", "a", "d", " ", "f",
      "i", "l", "e">>
MissingPrefix ==
    <<"M", "i", "s", "s", "i", "n", "g", " ", "r", "e", "q", "u", "i", "r", "e", "d",
      " ", "c", "o", "l", "u", "m", "n", "s", ":", " ">>
FoundPrefix == <<".", " ", "F", "o", "u", "n", "d", ":", " ">>

\* String.prototype.endsWith
endsWith(str, suffix) ==
    /\ Len(suffix) <= Len(str)
    /\ SubSeq(str, Len(str) - Len(suffix) + 1, Len(str)) = suffix

\* Array.prototype.join(", ")
RECURSIVE joinNames(_)
joinNames(names) ==
    IF names = <<>> THEN <<>>
    ELSE IF Len(names) = 1 THEN names[1]
    ELSE names[1] \o <<",", " ">> \o joinNames(Tail(names))

\* Object.keys(rows[0])
headersOf(row) == [k \in DOMAIN row |-> row[k].key]

\* no column is ever reported missing
missingColumnsNone(headers) == <<>>

\* REQUIRED_COLUMNS.filter((c) => !headers.includes(c))
missingColumns(headers) ==
    SelectSeq(REQUIRED_COLUMNS, LAMBDA c : ~\E k \in DOMAIN headers : headers[k] = c)

\* `Missing required columns: ${missing.join(", ")}. Found: ${headers.join(", ")}`
missingMessage(missing, headers) ==
    MissingPrefix \o joinNames(missing) \o FoundPrefix \o joinNames(headers)

\* row[name] of a parsed record
FieldOf(row, name) ==
    LET at == KeyIndex(row, name) IN IF at = 0 THEN <<>> ELSE row[at].value

\* rows as { message, award_title, recipient_title, nominator_title }[]
asCsvRows(rs) ==
    [i \in DOMAIN rs |->
        [message |-> FieldOf(rs[i], REQUIRED_COLUMNS[1]),
         award_title |-> FieldOf(rs[i], REQUIRED_COLUMNS[2]),
         recipient_title |-> FieldOf(rs[i], REQUIRED_COLUMNS[3]),
         nominator_title |-> FieldOf(rs[i], REQUIRED_COLUMNS[4])]]

\* the error event leaves the status alone
onerrorErrorOnly(l) == [l EXCEPT !.error = FailedToRead, !.reader = "error"]

\* reader.onerror: setError("Failed to read file"); setStatus("not-found")
onerror(l) == [l EXCEPT !.error = FailedToRead, !.status = "not-found", !.reader = "error"]

\* reader.onload: the loader after the text has been processed, and the rows parsed
onload(l, text) ==
    LET parsed == parseCSV(text)
        headers == headersOf(parsed[1])
        missing == missingColumns(headers)
    IN  IF Len(parsed) = 0
        THEN [loader |-> [l EXCEPT !.error = AppearsEmpty, !.status = "not-found",
                                   !.reader = "load"],
              rows |-> parsed, loaded |-> FALSE]
        ELSE IF Len(missing) # 0
        THEN [loader |-> [l EXCEPT !.error = missingMessage(missing, headers),
                                   !.status = "not-found", !.reader = "load"],
              rows |-> parsed, loaded |-> FALSE]
        ELSE [loader |-> [l EXCEPT
                            !.reader = "load",
                            !.processed = @ + 1,
                            !.onLoad = Append(@, [eda |-> processCSVToRawData(asCsvRows(parsed)),
                                                  runs |-> <<>>])],
              rows |-> parsed, loaded |-> TRUE]

(***************************************************************************)
(* Inputs of the loader: a CSV file whose text is made of a few blank rows *)
(* and data rows, with or without a header line among them, and two files  *)
(* that are not CSV files.                                                 *)
(***************************************************************************)
FullHeader ==
    <<"n", "o", "m", "i", "n", "a", "t", "o", "r", "_", "t", "i", "t", "l", "e", ",",
      "m", "e", "s", "s", "a", "g", "e", ",", "a", "w", "a", "r", "d", "_", "t", "i",
      "t", "l", "e", ",", "r", "e", "c", "i", "p", "i", "e", "n", "t", "_", "t", "i",
      "t", "l", "e">>
PartialHeader ==
    <<"m", "e", "s", "s", "a", "g", "e", ",", " ", "r", "e", "c", "i", "p", "i", "e",
      "n", "t", "_", "t", "i", "t", "l", "e">>
DataLine ==
    <<"A", ",", "h", "i", ",", "S", ",", "B">>
BlankFields == <<" ", ",", " ">>
EmptyLine == <<>>

\* the lines around the header line, and the header lines
LineTexts == {DataLine, BlankFields, EmptyLine}
HeaderLines == {FullHeader, PartialHeader}

\* the line put in front of the k-th line of the others, k counted from 0
InsertLine(lines, k, line) ==
    SubSeq(lines, 1, k) \o <<line>> \o SubSeq(lines, k + 1, Len(lines))

\* the lines of a text separated by line feeds
RECURSIVE JoinLines(_)
JoinLines(lines) ==
    IF lines = <<>> THEN <<>>
    ELSE IF Len(lines) = 1 THEN lines[1]
    ELSE lines[1] \o <<"\n">> \o JoinLines(Tail(lines))

NoFile == [present |-> FALSE, name |-> <<>>, text |-> <<>>]
CsvFile(text) == [present |-> TRUE, name |-> <<"a", ".", "c", "s", "v">>, text |-> text]
OtherFiles ==
    {[present |-> TRUE, name |-> <<"a", ".", "t", "x", "t">>, text |-> DataLine],
     [present |-> TRUE, name |-> <<"c", "s", "v">>, text |-> DataLine]}

\* the runs of an existing report, as /api/data returns them
ApiRuns == {<<>>, <<"run">>}

LoaderInit ==
    /\ pc = "checking"
    /\ loader = [status |-> "checking", error |-> <<>>, reader |-> "none",
                 onLoad |-> <<>>, processed |-> 0]
    /\ file = NoFile
    /\ \E n \in 0..MaxLines : \E lines \in [1..n -> LineTexts] :
          \/ csvText = JoinLines(lines)
          \/ \E k \in 0..n : \E header \in HeaderLines :
                 csvText = JoinLines(InsertLine(lines, k, header))
    /\ records = <<>>
    /\ pctArgs = None
    /\ pctValue = None
    /\ titles = None
    /\ seniorityDist = None
    /\ heatmap = None
    /\ batchScan = None
    /\ raw = None
    /\ titleCount = None
    /\ captureRecapture = None
    /\ recommended = None
    /\ rows = None
    /\ interactions = None
    /\ phase2 = None
    /\ analysis = None
    /\ runs = None
    /\ comparison = None

LoaderUnchanged ==
    UNCHANGED <<raw, titleCount, captureRecapture, recommended, rows, interactions,
                phase2, analysis, runs, comparison, csvText,
                pctArgs, pctValue, titles, seniorityDist, heatmap, batchScan>>

\* checkFile: a report exists and is handed to onLoad
CheckFileFound ==
    /\ pc = "checking"
    /\ \E rs \in ApiRuns :
          loader' = [loader EXCEPT !.onLoad = Append(@, [eda |-> "json.eda", runs |-> rs])]
    /\ pc' = "loaded"
    /\ UNCHANGED <<file, records>>
    /\ LoaderUnchanged

\* checkFile: no report, or the request failed
CheckFileNotFound ==
    /\ pc = "checking"
    /\ loader' = [loader EXCEPT !.status = "not-found"]
    /\ pc' = "upload"
    /\ UNCHANGED <<file, records>>
    /\ LoaderUnchanged

\* handleFile(file), from the upload view: it is rendered in every status but
\* "checking" and "parsing"
HandleFile ==
    /\ pc = "upload"
    /\ loader.status \notin {"checking", "parsing"}
    /\ \E f \in OtherFiles \cup {CsvFile(csvText)} :
          /\ file' = f
          /\ IF ~endsWith(f.name, CsvSuffix)
             THEN /\ loader' = [loader EXCEPT !.error = PleaseUpload, !.reader = "none"]
                  /\ pc' = pc
             ELSE /\ loader' = [loader EXCEPT !.status = "parsing", !.error = <<>>,
                                              !.reader = "reading"]
                  /\ pc' = "reading"
    /\ records' = <<>>
    /\ LoaderUnchanged

\* reader.onload
ReaderOnload ==
    /\ pc = "reading"
    /\ LET done == onload(loader, file.text)
       IN  /\ loader' = done.loader
           /\ records' = done.rows
           /\ pc' = IF done.loaded THEN "loaded" ELSE "upload"
    /\ UNCHANGED file
    /\ LoaderUnchanged

\* reader.onerror
ReaderOnerror ==
    /\ pc = "reading"
    /\ loader' = onerror(loader)
    /\ pc' = "upload"
    /\ UNCHANGED <<file, records>>
    /\ LoaderUnchanged

LoaderNext ==
    \/ CheckFileFound
    \/ CheckFileNotFound
    \/ HandleFile
    \/ ReaderOnload
    \/ ReaderOnerror

SpecLoader == LoaderInit /\ [][LoaderNext]_vars

\* a FileReader that was started does not stay pending: its load and its error event
\* are enabled in the same states and each of them ends the read, so weak fairness of
\* the error event excludes exactly the behaviours in which neither event ever fires
SpecLoaderFair == SpecLoader /\ WF_vars(ReaderOnerror)

(***************************************************************************)
(* Claims about the loader, checked under SpecLoader and SpecLoaderFair.   *)
(***************************************************************************)
\* the pieces of a string between the occurrences of a separator
C21_Split(str, sep) ==
    LET cuts == {i \in DOMAIN str : str[i] = sep}
        n == Cardinality(cuts)
        cut(k) == IF k = 0 THEN 0
                  ELSE IF k = n + 1 THEN Len(str) + 1
                  ELSE CHOOSE c \in cuts : Cardinality({b \in cuts : b < c}) = k - 1
    IN  [k \in 1..(n + 1) |-> SubSeq(str, cut(k - 1) + 1, cut(k) - 1)]

\* the lines of a text without quotes: the runs of characters between line feeds
C21_Lines(text) == C21_Split(text, "\n")

\* a row whose fields are all blank after trimming: white space and commas only
C21_Blank(line) == \A i \in DOMAIN line : line[i] \in WhiteSpace \cup {","}

C21_NonBlankRows(text) == SelectSeq(C21_Lines(text), LAMBDA line : ~C21_Blank(line))

\* the load event of the reader has been handled for the text of the file
C21_TextProcessed ==
    /\ loader.reader = "load"
    /\ \A i \in DOMAIN file.text : file.text[i] # Quote

\* C21: parseCSV discards every row whose fields are all blank after trimming, wherever
\* it stands, so the records are the non-blank rows less the header row; with fewer than
\* two non-blank rows there are no records, and the loader reports an empty input
\* without calling onLoad.
C21_BlankRowsDiscarded ==
    C21_TextProcessed
    => LET nonBlank == Len(C21_NonBlankRows(file.text))
       IN  /\ Len(records) = IF nonBlank < 2 THEN 0 ELSE nonBlank - 1
           /\ nonBlank < 2 => /\ loader.error = AppearsEmpty
                              /\ loader.status = "not-found"
                              /\ loader.onLoad = <<>>
                              /\ loader.processed = 0

\* an empty line before the header and a row of blank fields after it: one record is
\* loaded
C21_Witness ==
    /\ C21_TextProcessed
    /\ file.text = JoinLines(<<EmptyLine, FullHeader, BlankFields, DataLine>>)
    /\ Len(records) = 1
    /\ Len(loader.onLoad) = 1

\* the fields of a line without quotes, trimmed
C22_Fields(line) ==
    LET fields == C21_Split(line, ",") IN [k \in DOMAIN fields |-> Trim(fields[k])]

\* the names of the header row: the fields of the first non-blank row
C22_Found == C22_Fields(C21_NonBlankRows(file.text)[1])

C22_Required ==
    <<<<"m", "e", "s", "s", "a", "g", "e">>,
      <<"a", "w", "a", "r", "d", "_", "t", "i", "t", "l", "e">>,
      <<"r", "e", "c", "i", "p", "i", "e", "n", "t", "_", "t", "i", "t", "l", "e">>,
      <<"n", "o", "m", "i", "n", "a", "t", "o", "r", "_", "t", "i", "t", "l", "e">>>>

C22_Missing(found) ==
    SelectSeq(C22_Required, LAMBDA c : \A k \in DOMAIN found : found[k] # c)

\* every name of the list stands in the message
C22_Lists(message, names) ==
    \A n \in DOMAIN names :
        \E i \in DOMAIN message :
            /\ i + Len(names[n]) - 1 <= Len(message)
            /\ SubSeq(message, i, i + Len(names[n]) - 1) = names[n]

C28_NotCsvHandled ==
    /\ HandleFile
    /\ ~endsWith(file'.name, CsvSuffix)

\* the read of a .csv file has ended
C28_ReadEnded ==
    \/ /\ Len(loader.onLoad) = 1
       /\ loader.onLoad[1].runs = <<>>
    \/ /\ loader.status = "not-found"
       /\ loader.error # <<>>

====
